---- MODULE Spec2Model ----
(***************************************************************************)
(* Chat API of the messaging app: the Communication store, the derived     *)
(* rooms (get_rooms), the message pages (get_messages) and the write       *)
(* operations send_message, mark_messages_seen, archive_room, delete_room. *)
(*                                                                         *)
(* Strings are sequences of characters; a medium name ("SMS", "Email",     *)
(* "Phone") stands for one run of characters without ':' and is kept as    *)
(* one element.  Python's None is the string None, which no data contains. *)
(***************************************************************************)
EXTENDS Integers, Sequences, FiniteSets, TLC

VARIABLES comms, nextName, now, ret, contacts, members, texts, settings, subscriptions

vars == <<comms, nextName, now, ret, contacts, members, texts, settings, subscriptions>>

\* The documents beside the Communication table: the Contact documents, the
\* Messaging Group Member rows, the Group Text Message documents and the
\* Messaging Settings.
docs == <<contacts, members, texts, settings, subscriptions>>

\* ------------------------------------------------------------------ bounds
MaxComms == 2
MaxDate == 2
MaxStrLen == 2
MaxThread == 3
MaxPage == 4
MaxLimit == 3

\* ------------------------------------------------------- program constants
DefaultRoomsLimit == 20
DefaultMessagesLimit == 50

\* ----------------------------------------------------------------- strings
None == <<"None">>
Empty == <<>>
SMS == <<"SMS">>
Email == <<"Email">>
Phone == <<"Phone">>
Colon == ":"
CurrentUser == <<"u">>

\* Python truthiness of an optional string: None and "" are falsy.
Truthy(s) == s # None /\ s # Empty

\* str.split(sep): the parts between the separators, "" included.
Split(s, sep) ==
  LET RECURSIVE F(_, _, _)
      F(i, cur, acc) ==
        IF i > Len(s) THEN Append(acc, cur)
        ELSE IF s[i] = sep THEN F(i + 1, <<>>, Append(acc, cur))
        ELSE F(i + 1, Append(cur, s[i]), acc)
  IN F(1, <<>>, <<>>)

\* str.strip(): leading and trailing blanks removed.
Strip(s) ==
  LET RECURSIVE L(_)
      L(t) == IF t # <<>> /\ Head(t) = " " THEN L(Tail(t)) ELSE t
      RECURSIVE R(_)
      R(t) == IF t # <<>> /\ t[Len(t)] = " " THEN R(SubSeq(t, 1, Len(t) - 1)) ELSE t
  IN R(L(s))

\* SQL  col LIKE '%pat%'  for a pattern without wildcards: pat occurs in col.
\* A NULL column matches nothing.
Like(col, pat) ==
  /\ col # None
  /\ \E i \in 1..(Len(col) - Len(pat) + 1) : SubSeq(col, i, i + Len(pat) - 1) = pat

HasColon(s) == \E i \in 1..Len(s) : s[i] = Colon

\* Python slice xs[a:b]: a negative index counts from the end, then both are
\* clamped to 0..len.
PyIndex(n, k) == IF k < 0 THEN (IF n + k < 0 THEN 0 ELSE n + k) ELSE (IF k > n THEN n ELSE k)

PySlice(xs, a, b) == SubSeq(xs, PyIndex(Len(xs), a) + 1, PyIndex(Len(xs), b))

\* ---------------------------------------------------------------- room ids
format_room_id(medium, identifier, reference_doctype, reference_name) ==
  LET base == medium \o <<Colon>> \o identifier
  IN IF Truthy(reference_doctype) /\ Truthy(reference_name)
     THEN base \o <<Colon>> \o reference_doctype \o <<Colon>> \o reference_name
     ELSE base

\* Mutant of parse_room_id: the indices are one too low.
parse_room_id_shifted(room_id) ==
  LET parts == Split(room_id, Colon)
  IN [medium |-> IF Len(parts) > 0 THEN parts[1] ELSE None,
      identifier |-> IF Len(parts) > 0 THEN parts[1] ELSE None,
      reference_doctype |-> IF Len(parts) > 1 THEN parts[2] ELSE None,
      reference_name |-> IF Len(parts) > 2 THEN parts[3] ELSE None]

parse_room_id(room_id) ==
  LET parts == Split(room_id, Colon)
  IN [medium |-> IF Len(parts) > 0 THEN parts[1] ELSE None,
      identifier |-> IF Len(parts) > 1 THEN parts[2] ELSE None,
      reference_doctype |-> IF Len(parts) > 2 THEN parts[3] ELSE None,
      reference_name |-> IF Len(parts) > 3 THEN parts[4] ELSE None]

\* ------------------------------------------------------------------- store
Name(n) == <<"COMM", ToString(n)>>
MessageId(n) == <<"MSG", ToString(n)>>

\* The rows of a query in an order the store may return them: ORDER BY
\* communication_date fixes the order of rows with different dates only.
RECURSIVE PermSeqs(_)
PermSeqs(S) ==
  IF S = {} THEN {<<>>}
  ELSE UNION {{<<x>> \o p : p \in PermSeqs(S \ {x})} : x \in S}

OrderByDateDesc(S) ==
  {rows \in PermSeqs(S) :
     \A i \in 1..(Len(rows) - 1) :
        rows[i].communication_date >= rows[i + 1].communication_date}

OrderByDateAsc(S) ==
  {rows \in PermSeqs(S) :
     \A i \in 1..(Len(rows) - 1) :
        rows[i].communication_date <= rows[i + 1].communication_date}

IsCommunication(c) == c.communication_type = "Communication"

\* ---------------------------------------------------------------- get_rooms
\* x or ""  on an optional string.
OrEmpty(s) == IF Truthy(s) THEN s ELSE Empty

\* The external party a record is grouped under (retrieve.py, room loop).
ExternalIdentifier(comm) ==
  IF comm.communication_medium \in {SMS, Phone}
  THEN OrEmpty(comm.phone_no)
  ELSE IF comm.sent_or_received = "Received"
       THEN OrEmpty(comm.sender)
       ELSE LET recipients == OrEmpty(comm.recipients)
            IN IF recipients # Empty THEN Strip(Split(recipients, ",")[1]) ELSE Empty

RoomIdOf(comm) == comm.communication_medium \o <<Colon>> \o ExternalIdentifier(comm)

\* Position of room_id in the insertion-ordered room_map, 0 when absent.
RoomIndex(room_map, room_id) ==
  IF \E k \in 1..Len(room_map) : room_map[k].room_id = room_id
  THEN CHOOSE k \in 1..Len(room_map) : room_map[k].room_id = room_id
  ELSE 0

\* Mutant of TrackUnreplied: every unanswered Received record sets the flag.
TrackUnrepliedAny(entry, comm) ==
  IF comm.sent_or_received = "Received"
       /\ OrEmpty(comm.status) \notin {<<"Replied">>, <<"Closed">>}
  THEN [entry EXCEPT !.has_unreplied = TRUE]
  ELSE entry

\* The first Received record seen for a room decides _has_unreplied; a later
\* one is looked at only while _last_received_status is still falsy.
TrackUnreplied(entry, comm) ==
  IF comm.sent_or_received = "Received"
  THEN LET status == OrEmpty(comm.status)
       IN IF ~Truthy(entry.last_received_status)
          THEN [entry EXCEPT !.last_received_status = status,
                             !.has_unreplied =
                                IF status \notin {<<"Replied">>, <<"Closed">>}
                                THEN TRUE ELSE entry.has_unreplied]
          ELSE entry
  ELSE entry

\* Mutant of CountUnread: sent records are counted as well.
CountUnseen(entry, comm) ==
  IF ~comm.seen
  THEN [entry EXCEPT !.unread_count = entry.unread_count + 1]
  ELSE entry

CountUnread(entry, comm) ==
  IF comm.sent_or_received = "Received" /\ ~comm.seen
  THEN [entry EXCEPT !.unread_count = entry.unread_count + 1]
  ELSE entry

\* Mutant of GroupOne: every row replaces the room's representative record.
GroupOneOverwriting(room_map, comm) ==
  LET room_id == RoomIdOf(comm)
      seeded == IF RoomIndex(room_map, room_id) = 0
                THEN Append(room_map,
                            [room_id |-> room_id,
                             thread |-> comm,
                             unread_count |-> 0,
                             external_identifier |-> ExternalIdentifier(comm),
                             has_unreplied |-> FALSE,
                             last_received_status |-> None])
                ELSE room_map
      k == RoomIndex(seeded, room_id)
  IN [seeded EXCEPT ![k] = [CountUnread(TrackUnreplied(seeded[k], comm), comm)
                              EXCEPT !.thread = comm]]

\* One iteration of the loop over all_comms.
GroupOne(room_map, comm) ==
  LET room_id == RoomIdOf(comm)
      seeded == IF RoomIndex(room_map, room_id) = 0
                THEN Append(room_map,
                            [room_id |-> room_id,
                             thread |-> comm,
                             unread_count |-> 0,
                             external_identifier |-> ExternalIdentifier(comm),
                             has_unreplied |-> FALSE,
                             last_received_status |-> None])
                ELSE room_map
      k == RoomIndex(seeded, room_id)
  IN [seeded EXCEPT ![k] = CountUnread(TrackUnreplied(seeded[k], comm), comm)]

RECURSIVE GroupRooms(_, _, _)
GroupRooms(rows, i, room_map) ==
  IF i > Len(rows) THEN room_map
  ELSE GroupRooms(rows, i + 1, GroupOne(room_map, rows[i]))

\* helpers.py: the Room built from a room_map entry (the fields the API
\* returns that depend on the communications; externalId is users[1]._id
\* of a room whose contact has no user).
build_room_from_thread(entry) ==
  [roomId |-> entry.thread.communication_medium \o <<Colon>> \o OrEmpty(entry.external_identifier),
   externalId |-> OrEmpty(entry.external_identifier),
   unreadCount |-> entry.unread_count,
   index |-> entry.thread.communication_date,
   lastMessage |-> entry.thread.name,
   communicationMedium |-> entry.thread.communication_medium,
   hasUnreplied |-> entry.has_unreplied]

\* Mutant of get_sort_key: the unreplied flag is left out of the key.
get_sort_key_date_only(r, room_map) == <<0, 0 - r.index>>

\* get_sort_key: (0 if unreplied else 1, -timestamp), the flag read from
\* room_map under the room's roomId.
get_sort_key(r, room_map) ==
  LET k == RoomIndex(room_map, r.roomId)
      flag == IF k # 0 THEN room_map[k].has_unreplied ELSE FALSE
  IN <<IF flag THEN 0 ELSE 1, 0 - r.index>>

KeyLess(a, b) == a[1] < b[1] \/ (a[1] = b[1] /\ a[2] < b[2])

\* list.sort(key=...): stable, so equal keys keep their order.
RECURSIVE StableSort(_, _)
StableSort(rooms, room_map) ==
  IF rooms = <<>> THEN <<>>
  ELSE LET last == rooms[Len(rooms)]
           init == StableSort(SubSeq(rooms, 1, Len(rooms) - 1), room_map)
           key == get_sort_key(last, room_map)
           \* last goes after every element whose key is not greater
           pos == Cardinality({j \in 1..Len(init) :
                                 ~KeyLess(key, get_sort_key(init[j], room_map))})
       IN SubSeq(init, 1, pos) \o <<last>> \o SubSeq(init, pos + 1, Len(init))

\* get_rooms(page, limit) on the rows the store returned (no search, medium All).
get_rooms(rows, page, limit) ==
  LET offset == (page - 1) * limit
      room_map == GroupRooms(rows, 1, <<>>)
      all_rooms == StableSort([k \in 1..Len(room_map) |-> build_room_from_thread(room_map[k])],
                              room_map)
      total == Len(all_rooms)
  IN [rooms |-> PySlice(all_rooms, offset, offset + limit),
      total |-> total,
      page |-> page,
      hasMore |-> offset + limit < total]

\* get_unread_count()
get_unread_count(store) ==
  Cardinality({c \in store : IsCommunication(c) /\ c.sent_or_received = "Received" /\ ~c.seen})

\* ------------------------------------------------------------- get_messages
\* The WHERE clause shared by get_messages, send_message (latest in
\* thread), archive_room and delete_room.
ThreadQuery(store, medium, identifier) ==
  {c \in store :
     /\ IsCommunication(c)
     /\ c.communication_medium = medium
     /\ IF medium \in {SMS, Phone}
        THEN c.phone_no = identifier
        ELSE c.sender = identifier \/ Like(c.recipients, identifier)}

\* The reply preview: the record whose message_id equals in_reply_to
\* (.limit(1); message ids are unique in the store).
ReplyPreview(store, comm) ==
  IF Truthy(comm.in_reply_to)
  THEN LET hits == {t \in store : t.message_id = comm.in_reply_to}
       IN IF hits # {} THEN (CHOOSE t \in hits : TRUE).name ELSE None
  ELSE None

BuildMessage(store, comm, idx) ==
  [id |-> comm.name,
   indexId |-> idx,
   seen |-> comm.seen,
   failure |-> comm.delivery_status \in {<<"Bounced">>, <<"Error">>, <<"Rejected">>},
   distributed |-> comm.delivery_status \in {<<"Sent">>, <<"Opened">>, <<"Read">>},
   sentOrReceived |-> comm.sent_or_received,
   replyMessage |-> ReplyPreview(store, comm)]

\* cint(x) or default
CintOr(x, default) == IF x = 0 THEN default ELSE x

\* The tail-based window of get_messages.
Paginate(messages, page, limit) ==
  LET start_idx == IF Len(messages) - (page * limit) > 0
                   THEN Len(messages) - (page * limit) ELSE 0
      end_idx == Len(messages) - ((page - 1) * limit)
  IN [messages |-> PySlice(messages, start_idx, end_idx),
      hasMore |-> start_idx > 0]

\* Mutant of ValidRoom: the identifier is not looked at.
ValidRoomMediumOnly(room_parts) == Truthy(room_parts.medium)

\* if not medium or not identifier: the room id is refused.
ValidRoom(room_parts) == Truthy(room_parts.medium) /\ Truthy(room_parts.identifier)

\* get_messages(room_id, page, limit) on the rows the store returned.
get_messages(store, rows, room_id, page0, limit0) ==
  LET page == CintOr(page0, 1)
      limit == CintOr(limit0, DefaultMessagesLimit)
      room_parts == parse_room_id(room_id)
  IN IF ~ValidRoom(room_parts)
     THEN [messages |-> <<>>, total |-> 0, page |-> page, hasMore |-> FALSE]
     ELSE LET total == Cardinality(ThreadQuery(store, room_parts.medium, room_parts.identifier))
              messages == [i \in 1..Len(rows) |-> BuildMessage(store, rows[i], i - 1)]
              window == Paginate(messages, page, limit)
          IN [messages |-> window.messages, total |-> total, page |-> page,
              hasMore |-> window.hasMore]

\* The rows get_messages reads for a room id (none for an invalid id).
MessageRows(store, room_id) ==
  LET room_parts == parse_room_id(room_id)
  IN IF ValidRoom(room_parts)
     THEN OrderByDateAsc(ThreadQuery(store, room_parts.medium, room_parts.identifier))
     ELSE {<<>>}

\* -------------------------------------------------------- write operations
\* frappe.db.set_value("Communication", name, field, value) for each name.
SetValue(store, names, field, value) ==
  {IF c.name \in names THEN [c EXCEPT ![field] = value] ELSE c : c \in store}

\* The optional reference filter of mark_messages_seen and send_message.
RefFilter(c, room_parts) ==
  (Truthy(room_parts.reference_doctype) /\ Truthy(room_parts.reference_name))
    => (c.reference_doctype = room_parts.reference_doctype
        /\ c.reference_name = room_parts.reference_name)

\* Mutant of UnseenQuery: the medium is not compared.
UnseenQueryAnyMedium(store, room_parts) ==
  {c \in store :
     /\ IsCommunication(c)
     /\ c.sent_or_received = "Received"
     /\ ~c.seen
     /\ IF room_parts.medium \in {SMS, Phone}
        THEN c.phone_no = room_parts.identifier
        ELSE c.sender = room_parts.identifier
     /\ RefFilter(c, room_parts)}

\* The query of mark_messages_seen: unseen Received records of the room.
UnseenQuery(store, room_parts) ==
  {c \in store :
     /\ IsCommunication(c)
     /\ c.communication_medium = room_parts.medium
     /\ c.sent_or_received = "Received"
     /\ ~c.seen
     /\ IF room_parts.medium \in {SMS, Phone}
        THEN c.phone_no = room_parts.identifier
        ELSE c.sender = room_parts.identifier
     /\ RefFilter(c, room_parts)}

mark_messages_seen(store, room_id) ==
  LET room_parts == parse_room_id(room_id)
  IN IF ~ValidRoom(room_parts)
     THEN [store |-> store, success |-> FALSE, count |-> 0]
     ELSE LET unseen == UnseenQuery(store, room_parts)
          IN [store |-> SetValue(store, {c.name : c \in unseen}, "seen", TRUE),
              success |-> TRUE,
              count |-> Cardinality(unseen)]

archive_room(store, room_id) ==
  LET room_parts == parse_room_id(room_id)
  IN IF ~ValidRoom(room_parts)
     THEN [store |-> store, success |-> FALSE, count |-> 0, error |-> <<"Invalid room ID">>]
     ELSE LET found == ThreadQuery(store, room_parts.medium, room_parts.identifier)
          IN [store |-> SetValue(store, {c.name : c \in found}, "status", <<"Closed">>),
              success |-> TRUE,
              count |-> Cardinality(found),
              error |-> None]

\* The records delete_room selects (none for an invalid id).
DeleteRows(store, room_id) ==
  LET room_parts == parse_room_id(room_id)
  IN IF ValidRoom(room_parts)
     THEN ThreadQuery(store, room_parts.medium, room_parts.identifier)
     ELSE {}

\* Mutant of delete_room: the first failure ends the loop.
delete_room_until_failure(store, room_id, failing) ==
  LET room_parts == parse_room_id(room_id)
  IN IF ~ValidRoom(room_parts)
     THEN [store |-> store, success |-> FALSE, count |-> 0, error |-> <<"Invalid room ID">>]
     ELSE LET found == ThreadQuery(store, room_parts.medium, room_parts.identifier)
              errors == {c \in found : c.name \in failing}
              deleted == IF errors = {} THEN found ELSE {}
          IN [store |-> store \ deleted,
              success |-> errors = {},
              count |-> Cardinality(deleted),
              error |-> IF errors # {} THEN <<"errors">> ELSE None]

\* delete_room; failing is the set of names whose frappe.delete_doc raises.
delete_room(store, room_id, failing) ==
  LET room_parts == parse_room_id(room_id)
  IN IF ~ValidRoom(room_parts)
     THEN [store |-> store, success |-> FALSE, count |-> 0, error |-> <<"Invalid room ID">>]
     ELSE LET found == ThreadQuery(store, room_parts.medium, room_parts.identifier)
              deleted == {c \in found : c.name \notin failing}
              errors == found \ deleted
          IN [store |-> store \ deleted,
              success |-> errors = {},
              count |-> Cardinality(deleted),
              error |-> IF errors # {} THEN <<"errors">> ELSE None]

\* ------------------------------------------------------------- send_message
\* The calls of send_message that can raise: the insert of the new record,
\* the SMS/email transport, the write of delivery_status and the write of
\* the answered record's status.
FaultPoints == {"insert", "transport", "delivery_status", "status"}

\* The fault combinations that differ: nothing runs after a failed insert.
FaultSets == {F \in SUBSET FaultPoints : "insert" \in F => F = {"insert"}}

NewCommunication(n, today, medium, identifier, room_parts, reply_message_id) ==
  [name |-> Name(n),
   communication_type |-> "Communication",
   communication_medium |-> medium,
   sent_or_received |-> "Sent",
   sender |-> CurrentUser,
   recipients |-> identifier,
   phone_no |-> IF medium = SMS THEN identifier ELSE None,
   communication_date |-> today,
   seen |-> FALSE,
   status |-> IF medium = SMS THEN None ELSE <<"Linked">>,
   delivery_status |-> None,
   content |-> <<"t">>,
   message_id |-> IF medium = SMS THEN None ELSE MessageId(n),
   in_reply_to |-> reply_message_id,
   reference_doctype |-> room_parts.reference_doctype,
   reference_name |-> room_parts.reference_name]

\* The rows of the "latest message in thread" query, newest first.
LatestRows(store, room_id) ==
  LET room_parts == parse_room_id(room_id)
  IN IF ValidRoom(room_parts)
     THEN OrderByDateDesc({c \in ThreadQuery(store, room_parts.medium, room_parts.identifier) :
                             RefFilter(c, room_parts)})
     ELSE {<<>>}

\* Mutant of ReplyTarget: without reply_message_id the oldest row of the
\* thread is answered.
ReplyTargetOldest(store, rows, reply_message_id) ==
  IF Truthy(reply_message_id)
  THEN {c \in store : c.name = reply_message_id}
  ELSE IF rows # <<>> THEN {rows[Len(rows)]} ELSE {}

\* Reply context: the record answered, as a set of at most one record: found
\* by name when reply_message_id is given and else the first of rows.
ReplyTarget(store, rows, reply_message_id) ==
  IF Truthy(reply_message_id)
  THEN {c \in store : c.name = reply_message_id}
  ELSE IF rows # <<>> THEN {rows[1]} ELSE {}

\* The value send_message passes on as reply_message_id, stored as the new
\* record's in_reply_to.
InReplyTo(target, reply_message_id) ==
  IF Truthy(reply_message_id) THEN reply_message_id
  ELSE IF target # {} THEN (CHOOSE t \in target : TRUE).name ELSE reply_message_id

LatestReceivedName(target) ==
  IF \E t \in target : t.sent_or_received = "Received"
  THEN (CHOOSE t \in target : TRUE).name
  ELSE None

\* Mutant of send_sms: the transport's exception is not handled.
send_sms_unhandled(store, comm, faults) ==
  IF "insert" \in faults
  THEN [store |-> store, raised |-> TRUE]
  ELSE IF "transport" \in faults \/ "delivery_status" \in faults
       THEN [store |-> store \cup {comm}, raised |-> TRUE]
       ELSE [store |-> store \cup {[comm EXCEPT !.delivery_status = <<"Sent">>]},
             raised |-> FALSE]

\* _send_sms: insert, then transport; any exception of the transport or of
\* db_set(Sent) is caught and answered by db_set(Error).
send_sms(store, comm, faults) ==
  IF "insert" \in faults
  THEN [store |-> store, raised |-> TRUE]
  ELSE IF "transport" \notin faults /\ "delivery_status" \notin faults
       THEN [store |-> store \cup {[comm EXCEPT !.delivery_status = <<"Sent">>]},
             raised |-> FALSE]
       ELSE IF "delivery_status" \in faults
            THEN [store |-> store \cup {comm}, raised |-> TRUE]
            ELSE [store |-> store \cup {[comm EXCEPT !.delivery_status = <<"Error">>]},
                  raised |-> FALSE]

\* _send_email: insert, then sendmail; an exception of sendmail is caught and
\* answered by set_value(delivery_status, Error).
send_email(store, comm, faults) ==
  IF "insert" \in faults
  THEN [store |-> store, raised |-> TRUE]
  ELSE IF "transport" \notin faults
       THEN [store |-> store \cup {comm}, raised |-> FALSE]
       ELSE IF "delivery_status" \in faults
            THEN [store |-> store \cup {comm}, raised |-> TRUE]
            ELSE [store |-> store \cup {[comm EXCEPT !.delivery_status = <<"Error">>]},
                  raised |-> FALSE]

\* Mutant of Caught: the exception leaves send_message.
Uncaught(store) ==
  [store |-> store, raised |-> TRUE, success |-> FALSE, message |-> None,
   error |-> None]

\* The handler of send_message's try block: the exception is logged and
\* answered by a structured result.
Caught(store) ==
  [store |-> store, raised |-> FALSE, success |-> FALSE, message |-> None,
   error |-> <<"exception">>]

\* send_message(room_id, content, files=[], reply_message_id); rows are the
\* rows of the latest-in-thread query, n the number of the next record,
\* today the default communication_date, faults the calls that raise.
send_message(store, rows, room_id, reply_message_id, n, today, faults) ==
  LET room_parts == parse_room_id(room_id)
      medium == room_parts.medium
      identifier == room_parts.identifier
  IN IF ~ValidRoom(room_parts)
     THEN [store |-> store, raised |-> FALSE, success |-> FALSE, message |-> None,
           error |-> <<"Invalid room ID">>]
     ELSE LET target == ReplyTarget(store, rows, reply_message_id)
              in_reply_to == InReplyTo(target, reply_message_id)
              latest_received_name == LatestReceivedName(target)
              comm == NewCommunication(n, today, IF medium = SMS THEN SMS ELSE Email,
                                       identifier, room_parts, in_reply_to)
              sent == IF medium = SMS THEN send_sms(store, comm, faults)
                      ELSE send_email(store, comm, faults)
          IN IF sent.raised
             THEN Caught(sent.store)
             ELSE IF Truthy(latest_received_name) /\ "status" \in faults
                  THEN Caught(sent.store)
                  ELSE [store |-> IF Truthy(latest_received_name)
                                  THEN SetValue(sent.store, {latest_received_name},
                                                "status", <<"Replied">>)
                                  ELSE sent.store,
                        raised |-> FALSE,
                        success |-> TRUE, message |-> comm.name, error |-> None]

\* ------------------------------------------------------------ state machine
\* The inbound traffic: SMS without sender number and from number a, email
\* from address a and from an address that contains a ':'.
InboundKinds ==
  {<<SMS, Empty>>, <<SMS, <<"a">> >>, <<Email, <<"a">> >>, <<Email, <<"a", Colon, "b">> >>}

\* The room ids the operations are called with: every id get_rooms can list
\* for the inbound traffic, an id without separator and one without medium.
RoomIds ==
  {format_room_id(k[1], k[2], None, None) : k \in InboundKinds}
    \cup {SMS, <<Colon, "a">>}

NoResponse ==
  [op |-> "none", room_id |-> None, reply_message_id |-> None, faults |-> {},
   raised |-> FALSE, success |-> FALSE, count |-> 0, error |-> None, message |-> None,
   rooms |-> <<>>, messages |-> <<>>, total |-> 0, page |-> 0, limit |-> 0,
   hasMore |-> FALSE, http_status_code |-> 0,
   request |-> [method |-> "", signature |-> None, From |-> None, Body |-> None],
   contact |-> None, group |-> None, subject |-> None, original_subject |-> None,
   user |-> None, endpoint |-> None, keys |-> None, outcomes |-> <<>>, attempted |-> {},
   medium |-> None, identifier |-> None, parsed |-> parse_room_id(Empty)]

\* Messaging Settings without telephony token, all-contacts group and VAPID
\* keys.
NoSettings ==
  [twilio_auth_token |-> None, all_contacts_group |-> None,
   vapid_public_key |-> None, vapid_private_key_secret |-> None]

\* A site without contacts, group members, group text messages and push
\* subscriptions and with empty Messaging Settings.
NoDocs ==
  /\ contacts = {}
  /\ members = {}
  /\ texts = {}
  /\ settings = NoSettings
  /\ subscriptions = {}

Init ==
  /\ comms = {}
  /\ nextName = 1
  /\ now = 1
  /\ ret = NoResponse
  /\ NoDocs

\* An inbound message as the provider webhook (or the mail account) records
\* it.
InboundCommunication(n, medium, identifier, date) ==
  [name |-> Name(n),
   communication_type |-> "Communication",
   communication_medium |-> medium,
   sent_or_received |-> "Received",
   sender |-> identifier,
   recipients |-> CurrentUser,
   phone_no |-> IF medium = SMS THEN identifier ELSE None,
   communication_date |-> date,
   seen |-> FALSE,
   status |-> <<"Open">>,
   delivery_status |-> None,
   content |-> <<"t">>,
   message_id |-> MessageId(n),
   in_reply_to |-> None,
   reference_doctype |-> None,
   reference_name |-> None]

\* An inbound message arrives and is dated now; the clock has moved on
\* before the next record is written (records that share a date are the
\* matter of SpecRooms).
Receive ==
  /\ nextName <= MaxComms
  /\ \E k \in InboundKinds :
       comms' = comms \cup {InboundCommunication(nextName, k[1], k[2], now)}
  /\ nextName' = nextName + 1
  /\ now' = now + 1
  /\ ret' = [NoResponse EXCEPT !.op = "receive"]
  /\ UNCHANGED docs

GetRooms ==
  /\ \E rows \in OrderByDateDesc({c \in comms : IsCommunication(c)}) :
       LET r == get_rooms(rows, 1, DefaultRoomsLimit)
       IN ret' = [NoResponse EXCEPT !.op = "get_rooms", !.rooms = r.rooms,
                                    !.total = r.total, !.page = r.page,
                                    !.limit = DefaultRoomsLimit, !.hasMore = r.hasMore]
  /\ UNCHANGED <<comms, nextName, now>>
  /\ UNCHANGED docs

GetMessages ==
  /\ \E room_id \in RoomIds :
       \E rows \in MessageRows(comms, room_id) :
          LET r == get_messages(comms, rows, room_id, 1, 0)
          IN ret' = [NoResponse EXCEPT !.op = "get_messages", !.room_id = room_id,
                                       !.messages = r.messages, !.total = r.total,
                                       !.page = r.page, !.limit = DefaultMessagesLimit,
                                       !.hasMore = r.hasMore]
  /\ UNCHANGED <<comms, nextName, now>>
  /\ UNCHANGED docs

SendMessage ==
  /\ nextName <= MaxComms
  /\ \E room_id \in RoomIds, reply_message_id \in {Empty} \cup {c.name : c \in comms},
        faults \in FaultSets :
       \E rows \in LatestRows(comms, room_id) :
          LET r == send_message(comms, rows, room_id, reply_message_id, nextName, now, faults)
              inserted == \E c \in r.store : c.name = Name(nextName)
          IN /\ comms' = r.store
             /\ nextName' = IF inserted THEN nextName + 1 ELSE nextName
             /\ now' = IF inserted THEN now + 1 ELSE now
             /\ ret' = [NoResponse EXCEPT !.op = "send_message", !.room_id = room_id,
                                          !.reply_message_id = reply_message_id,
                                          !.faults = faults, !.raised = r.raised,
                                          !.success = r.success,
                                          !.message = r.message, !.error = r.error]
  /\ UNCHANGED docs

MarkMessagesSeen ==
  /\ \E room_id \in RoomIds :
       LET r == mark_messages_seen(comms, room_id)
       IN /\ comms' = r.store
          /\ ret' = [NoResponse EXCEPT !.op = "mark_messages_seen", !.room_id = room_id,
                                       !.success = r.success, !.count = r.count]
  /\ UNCHANGED <<nextName, now>>
  /\ UNCHANGED docs

ArchiveRoom ==
  /\ \E room_id \in RoomIds :
       LET r == archive_room(comms, room_id)
       IN /\ comms' = r.store
          /\ ret' = [NoResponse EXCEPT !.op = "archive_room", !.room_id = room_id,
                                       !.success = r.success, !.count = r.count,
                                       !.error = r.error]
  /\ UNCHANGED <<nextName, now>>
  /\ UNCHANGED docs

DeleteRoom ==
  /\ \E room_id \in RoomIds :
     \E failing \in SUBSET {c.name : c \in DeleteRows(comms, room_id)} :
       LET r == delete_room(comms, room_id, failing)
       IN /\ comms' = r.store
          /\ ret' = [NoResponse EXCEPT !.op = "delete_room", !.room_id = room_id,
                                       !.faults = failing,
                                       !.success = r.success, !.count = r.count,
                                       !.error = r.error]
  /\ UNCHANGED <<nextName, now>>
  /\ UNCHANGED docs

Next ==
  \/ Receive
  \/ GetRooms
  \/ GetMessages
  \/ SendMessage
  \/ MarkMessagesSeen
  \/ ArchiveRoom
  \/ DeleteRoom

Spec == Init /\ [][Next]_vars

\* ------------------------------------------------- get_rooms on given stores
\* The reads are functions of the store: SpecRooms starts them on every
\* store of at most MaxComms records of the kinds below (received records
\* of the inbound traffic, open, replied or closed, and the records
\* send_message writes), MaxDate dates apart.
ReceivedVariants ==
  {[sor |-> "Received", kind |-> k, date |-> d, status |-> st] :
     k \in InboundKinds, d \in 1..MaxDate,
     st \in {<<"Open">>, <<"Replied">>, <<"Closed">>}}

SentVariants ==
  {[sor |-> "Sent", kind |-> k, date |-> d, status |-> None] :
     k \in {k \in InboundKinds : ValidRoom(parse_room_id(format_room_id(k[1], k[2], None, None)))},
     d \in 1..MaxDate}

StoredRecord(n, v) ==
  IF v.sor = "Received"
  THEN [InboundCommunication(n, v.kind[1], v.kind[2], v.date) EXCEPT !.status = v.status]
  ELSE LET room_parts == parse_room_id(format_room_id(v.kind[1], v.kind[2], None, None))
       IN NewCommunication(n, v.date, room_parts.medium, room_parts.identifier,
                           room_parts, Empty)

\* The strings of at most MaxStrLen characters over a, b and ':'.
Chars == {"a", "b", Colon}

Strings == UNION {[1..k -> Chars] : k \in 0..MaxStrLen}

InitRooms ==
  /\ nextName = MaxComms + 1
  /\ now = MaxDate
  /\ NoDocs
  /\ \/ /\ \E k \in 0..MaxComms :
             \E f \in [1..k -> ReceivedVariants \cup SentVariants] :
                comms = {StoredRecord(i, f[i]) : i \in 1..k}
        /\ ret = NoResponse
     \/ /\ comms = {}
        /\ \E medium \in Strings, identifier \in Strings :
             ret = [NoResponse EXCEPT !.op = "room_id_input", !.medium = medium,
                                      !.identifier = identifier]

\* format_room_id(medium, identifier) and parse_room_id of the result.
RoundTrip ==
  /\ ret.op = "room_id_input"
  /\ LET room_id == format_room_id(ret.medium, ret.identifier, None, None)
     IN ret' = [ret EXCEPT !.op = "parse_room_id", !.room_id = room_id,
                           !.parsed = parse_room_id(room_id)]
  /\ UNCHANGED <<comms, nextName, now>>
  /\ UNCHANGED docs

\* parse_room_id of a roomId that get_rooms returned.
ParseListed ==
  /\ ret.op = "get_rooms"
  /\ \E k \in 1..Len(ret.rooms) :
       ret' = [NoResponse EXCEPT !.op = "parse_listed", !.room_id = ret.rooms[k].roomId,
                                 !.medium = ret.rooms[k].communicationMedium,
                                 !.identifier = ret.rooms[k].externalId,
                                 !.parsed = parse_room_id(ret.rooms[k].roomId)]
  /\ UNCHANGED <<comms, nextName, now>>
  /\ UNCHANGED docs

NextRooms ==
  \/ GetRooms
  \/ RoundTrip
  \/ ParseListed

SpecRooms == InitRooms /\ [][NextRooms]_vars

\* ---------------------------------------------- get_messages page by page
\* SpecPages starts on a thread of at most MaxThread messages of one room,
\* received or sent, one date apart, and reads its pages.
ThreadRecord(n, medium, sor) ==
  IF sor = "Received"
  THEN InboundCommunication(n, medium, <<"a">>, n)
  ELSE NewCommunication(n, n, medium, <<"a">>,
                        parse_room_id(format_room_id(medium, <<"a">>, None, None)), Empty)

InitPages ==
  /\ nextName = MaxThread + 1
  /\ now = MaxThread
  /\ ret = NoResponse
  /\ NoDocs
  /\ \E medium \in {SMS, Email}, k \in 0..MaxThread :
       \E f \in [1..k -> {"Received", "Sent"}] :
          comms = {ThreadRecord(i, medium, f[i]) : i \in 1..k}

GetMessagesPage ==
  /\ \E room_id \in {format_room_id(m, <<"a">>, None, None) : m \in {SMS, Email}},
        page \in 0..MaxPage, limit \in 0..MaxLimit :
       \E rows \in MessageRows(comms, room_id) :
          LET r == get_messages(comms, rows, room_id, page, limit)
          IN ret' = [NoResponse EXCEPT !.op = "get_messages", !.room_id = room_id,
                                       !.messages = r.messages, !.total = r.total,
                                       !.page = r.page,
                                       !.limit = CintOr(limit, DefaultMessagesLimit),
                                       !.hasMore = r.hasMore]
  /\ UNCHANGED <<comms, nextName, now>>
  /\ UNCHANGED docs

NextPages == GetMessagesPage

SpecPages == InitPages /\ [][NextPages]_vars

\* ------------------------------------------- get_rooms: grouping and unread
\* SpecGrouping starts get_rooms on every store of at most MaxComms records
\* of one date, received (seen or not) or sent (not seen), SMS or email,
\* whose party (phone number, sender, recipients) is one of Parties.
Comma == ","

\* No party, a and " a ,b".
Parties == {Empty, <<"a">>, <<" ", "a", " ", Comma, "b">>}

GroupedVariants ==
  [sor : {"Received"}, medium : {SMS, Email}, seen : BOOLEAN, party : Parties]
    \cup [sor : {"Sent"}, medium : {SMS, Email}, seen : {FALSE}, party : Parties]

GroupedRecord(n, v) ==
  IF v.sor = "Received"
  THEN [InboundCommunication(n, v.medium, v.party, 1) EXCEPT !.seen = v.seen]
  ELSE [NewCommunication(n, 1, v.medium, v.party, parse_room_id(Empty), Empty)
          EXCEPT !.seen = v.seen]

InitGrouping ==
  /\ nextName = MaxComms + 1
  /\ now = 1
  /\ ret = NoResponse
  /\ NoDocs
  /\ \E k \in 0..MaxComms :
       \E f \in [1..k -> GroupedVariants] :
          comms = {GroupedRecord(i, f[i]) : i \in 1..k}

NextGrouping == GetRooms

SpecGrouping == InitGrouping /\ [][NextGrouping]_vars

\* ------------------------------------------------------ inbound SMS webhook
\* SpecWebhook: the provider's webhook on a site with at most MaxContacts
\* contacts, with or without a configured auth token, until MaxInbound
\* Communications are stored.
MaxInbound == 4
MaxContacts == 2

NoContent == 204

Numbers == {<<"a">>, <<"b">>}

Token == <<"k">>

\* The message bodies: STOP, stop with blanks around it, and a longer word.
Bodies == {<<"S", "T", "O", "P">>, <<" ", "s", "t", "o", "p", " ">>,
           <<"s", "t", "o", "p", "s">>}

LowerChar(ch) ==
  CASE ch = "A" -> "a" [] ch = "B" -> "b" [] ch = "O" -> "o" [] ch = "P" -> "p"
    [] ch = "S" -> "s" [] ch = "T" -> "t" [] ch = "R" -> "r" [] ch = "E" -> "e"
    [] OTHER -> ch

\* str.lower()
Lower(s) == [i \in 1..Len(s) |-> LowerChar(s[i])]

\* twilio's RequestValidator(auth_token).validate(url, form, signature): the
\* signature of a request is written as the key it was computed with.
RequestValidator(auth_token, signature) == signature = auth_token

\* The requests: the POSTs of the two numbers, signed with the token or with
\* another key, and a GET of such a request.
Requests ==
  [method : {"POST"}, signature : {Token, <<"x">>}, From : Numbers, Body : Bodies]
    \cup [method : {"GET"}, signature : {Token}, From : {<<"a">>},
          Body : {<<"S", "T", "O", "P">>}]

ContactName(i) == <<"CONTACT", ToString(i)>>

\* The contacts that have a Contact Phone row with the number.
PhoneHolders(contact_docs, number) ==
  {d \in contact_docs : \E i \in 1..Len(d.phone_nos) : d.phone_nos[i].phone = number}

\* frappe.throw: the request ends with an exception and writes nothing.
Thrown(store, msg) ==
  [store |-> store, raised |-> TRUE, error |-> msg, http_status_code |-> 0,
   inserted |-> {}]

\* Mutant of sms: the signature is not validated.
sms_unvalidated(store, conf, request, sender_contact, n, today) ==
  IF request.method # "POST"
  THEN Thrown(store, <<"Only POST requests allowed">>)
  ELSE IF ~Truthy(conf.twilio_auth_token)
       THEN Thrown(store, <<"Twilio auth token not configured">>)
       ELSE LET communication == InboundCommunication(n, SMS, request.From, today)
            IN [store |-> store \cup {communication}, raised |-> FALSE, error |-> None,
                http_status_code |-> NoContent, inserted |-> {communication}]

\* Mutant of sms: the body of the message is not stored.
sms_without_content(store, conf, request, sender_contact, n, today) ==
  IF request.method # "POST"
  THEN Thrown(store, <<"Only POST requests allowed">>)
  ELSE IF ~Truthy(conf.twilio_auth_token)
       THEN Thrown(store, <<"Twilio auth token not configured">>)
       ELSE IF ~RequestValidator(conf.twilio_auth_token, request.signature)
            THEN Thrown(store, <<"Invalid request signature">>)
            ELSE LET communication == InboundCommunication(n, SMS, request.From, today)
                 IN [store |-> store \cup {communication}, raised |-> FALSE,
                     error |-> None, http_status_code |-> NoContent,
                     inserted |-> {communication}]

\* sms(): the webhook.  sender_contact is the contact frappe.db.exists finds
\* for the sender number, as a set of at most one contact.
sms(store, conf, request, sender_contact, n, today) ==
  IF request.method # "POST"
  THEN Thrown(store, <<"Only POST requests allowed">>)
  ELSE IF ~Truthy(conf.twilio_auth_token)
       THEN Thrown(store, <<"Twilio auth token not configured">>)
       ELSE IF ~RequestValidator(conf.twilio_auth_token, request.signature)
            THEN Thrown(store, <<"Invalid request signature">>)
            ELSE LET sender_number == request.From
                     sender_full_name ==
                       IF sender_contact = {} THEN Empty
                       ELSE (CHOOSE d \in sender_contact : TRUE).full_name
                     communication ==
                       [InboundCommunication(n, SMS, sender_number, today)
                          EXCEPT !.content = request.Body,
                                 !.sender = IF Truthy(sender_full_name)
                                            THEN sender_full_name ELSE sender_number]
                 IN [store |-> store \cup {communication}, raised |-> FALSE,
                     error |-> None, http_status_code |-> NoContent,
                     inserted |-> {communication}]

StopConfirmation == <<"You have been removed from our broadcast list.">>

IsStop(content) == Lower(Strip(content)) = <<"s", "t", "o", "p">>

\* The opt-out that follows the insert of a received SMS: when its content,
\* trimmed and case-folded, is "stop", every contact with the sender's number
\* is flagged unsubscribed and one confirmation SMS is recorded as sent.
OptOut(store, contact_docs, inserted, n, today) ==
  LET stops == {c \in inserted : /\ c.communication_medium = SMS
                                 /\ c.sent_or_received = "Received"
                                 /\ IsStop(c.content)}
  IN IF stops = {}
     THEN [store |-> store, contacts |-> contact_docs]
     ELSE LET comm == CHOOSE c \in stops : TRUE
              room_parts == parse_room_id(format_room_id(SMS, comm.phone_no, None, None))
              confirmation ==
                [NewCommunication(n, today, SMS, comm.phone_no, room_parts, Empty)
                   EXCEPT !.content = StopConfirmation,
                          !.delivery_status = <<"Sent">>]
          IN [store |-> store \cup {confirmation},
              contacts |-> {IF d \in PhoneHolders(contact_docs, comm.phone_no)
                            THEN [d EXCEPT !.unsubscribed = TRUE] ELSE d :
                            d \in contact_docs}]

\* The Contact Phone rows with the given numbers, validated as mobile
\* numbers, the first one primary.
ContactPhones(numbers) ==
  [i \in 1..Len(numbers) |->
     [idx |-> i, phone |-> numbers[i], is_primary_phone |-> i = 1,
      is_primary_mobile_no |-> i = 1, is_valid |-> TRUE, carrier_type |-> "mobile",
      validated_number |-> numbers[i]]]

\* The Contact Email rows with the given addresses.
ContactEmails(emails) == [i \in 1..Len(emails) |-> [idx |-> i, email_id |-> emails[i]]]

\* A Contact document: its full name, its Contact Email rows, its Contact
\* Phone rows, the Messaging Groups its Dynamic Links name, its unsubscribed
\* flag and its consent to SMS.
ContactDoc(i, full_name, email_ids, phone_nos) ==
  [name |-> ContactName(i), full_name |-> full_name, email_ids |-> ContactEmails(email_ids),
   phone_nos |-> ContactPhones(phone_nos), links |-> {}, unsubscribed |-> FALSE,
   consent_sms |-> TRUE]

\* The phone rows of a contact of SpecWebhook: number a, or b and a.
PhoneLists == {<< <<"a">> >>, << <<"b">>, <<"a">> >>}

InitWebhook ==
  /\ comms = {}
  /\ nextName = 1
  /\ now = 1
  /\ ret = NoResponse
  /\ members = {}
  /\ texts = {}
  /\ subscriptions = {}
  /\ \E auth_token \in {None, Token} :
       settings = [NoSettings EXCEPT !.twilio_auth_token = auth_token]
  /\ \E f \in [1..MaxContacts -> PhoneLists] :
       contacts = {ContactDoc(i, IF i = 1 THEN <<"n">> ELSE Empty, <<>>, f[i]) :
                     i \in 1..MaxContacts}

\* One request to the webhook, with the opt-out that follows the insert.
Sms ==
  /\ nextName < MaxInbound
  /\ \E request \in Requests :
     \E sender_contact \in (IF PhoneHolders(contacts, request.From) = {} THEN {{}}
                            ELSE {{d} : d \in PhoneHolders(contacts, request.From)}) :
       LET r == sms(comms, settings, request, sender_contact, nextName, now)
           o == OptOut(r.store, contacts, r.inserted, nextName + 1, now)
       IN /\ comms' = o.store
          /\ contacts' = o.contacts
          /\ nextName' = nextName + Cardinality(o.store \ comms)
          /\ now' = IF r.raised THEN now ELSE now + 1
          /\ ret' = [NoResponse EXCEPT !.op = "sms", !.request = request,
                                       !.raised = r.raised, !.error = r.error,
                                       !.http_status_code = r.http_status_code]
  /\ UNCHANGED <<members, texts, settings, subscriptions>>

NextWebhook == Sms

SpecWebhook == InitWebhook /\ [][NextWebhook]_vars

\* ------------------------------------------------- contact: deduplication
\* SpecContact: one contact with at most MaxEmails email rows or at most
\* MaxPhones phone rows, and the two deduplications on it.
MaxEmails == 3
MaxPhones == 3

\* The addresses a, A, " a", "A " and b.
EmailStrings == {<<"a">>, <<"A">>, <<" ", "a">>, <<"A", " ">>, <<"b">>}

\* The phone strings: +1 and +2 are numbers in E.164 form, "n1" is number 1
\* in national notation, "+ 1" is number 1 in international notation with a
\* blank, "x" is no phone number.
PhoneStrings == {<<"+", "1">>, <<"+", "2">>, <<"n", "1">>, <<"+", " ", "1">>, <<"x">>}

\* The ISO country codes: US, in which the national notation is read, and an
\* unknown region.
CountryCodes == {"US", "ZZ"}

Digits == {"1", "2"}

\* phonenumbers.parse(number, region) with is_valid_number: the number the
\* string denotes, None when it does not parse or is not valid.  A string
\* that starts with '+' parses without region.
ParseNumber(number, region) ==
  IF number = Empty THEN None
  ELSE IF Head(number) = "+" /\ Len(number) >= 2 /\ number[Len(number)] \in Digits
          /\ \A i \in 2..(Len(number) - 1) : number[i] = " "
       THEN <<number[Len(number)]>>
       ELSE IF Head(number) = "n" /\ Len(number) = 2 /\ number[2] \in Digits
               /\ region = "US"
            THEN <<number[2]>>
            ELSE None

\* phonenumbers.format_number(numobj, E164)
FormatE164(numobj) == <<"+">> \o numobj

is_valid_e164_number(number) ==
  IF number = Empty \/ Head(number) # "+" THEN FALSE
  ELSE IF ParseNumber(number, "") = None THEN FALSE
       ELSE FormatE164(ParseNumber(number, "")) = number

convert_to_e164(number, country_code) ==
  IF ~Truthy(number) THEN None
  ELSE IF ParseNumber(number, country_code) = None THEN None
       ELSE FormatE164(ParseNumber(number, country_code))

\* Mutant of deduplicate_emails: the addresses are compared as written.
deduplicate_emails_as_written(email_ids) ==
  LET RECURSIVE F(_, _, _)
      F(i, seen_emails, kept) ==
        IF i > Len(email_ids) THEN kept
        ELSE LET email == Strip(Lower(email_ids[i].email_id))
             IN IF email_ids[i].email_id \in seen_emails
                THEN F(i + 1, seen_emails, kept)
                ELSE F(i + 1, seen_emails \cup {email_ids[i].email_id},
                       Append(kept, [email_ids[i] EXCEPT !.email_id = email]))
  IN F(1, {}, <<>>)

\* Contact.deduplicate_emails: the rows whose lower-cased, stripped address
\* was seen before are popped; the others hold that address afterwards.
deduplicate_emails(email_ids) ==
  LET RECURSIVE F(_, _, _)
      F(i, seen_emails, kept) ==
        IF i > Len(email_ids) THEN kept
        ELSE LET email == Strip(Lower(email_ids[i].email_id))
             IN IF email \in seen_emails
                THEN F(i + 1, seen_emails, kept)
                ELSE F(i + 1, seen_emails \cup {email},
                       Append(kept, [email_ids[i] EXCEPT !.email_id = email]))
  IN F(1, {}, <<>>)

\* Mutant of deduplicate_phone_numbers: the numbers are not converted.
deduplicate_phone_numbers_unconverted(phone_nos, country_code) ==
  LET RECURSIVE F(_, _, _)
      F(i, seen_numbers, kept) ==
        IF i > Len(phone_nos) THEN kept
        ELSE LET phone == phone_nos[i].phone
             IN IF ~is_valid_e164_number(phone) /\ convert_to_e164(phone, country_code) = None
                THEN F(i + 1, seen_numbers, Append(kept, phone_nos[i]))
                ELSE IF phone \in seen_numbers
                     THEN F(i + 1, seen_numbers, kept)
                     ELSE F(i + 1, seen_numbers \cup {phone}, Append(kept, phone_nos[i]))
  IN F(1, {}, <<>>)

\* Contact.deduplicate_phone_numbers: a row that is not E.164 is converted;
\* a row that cannot be converted is skipped (kept as it is, not compared);
\* a row whose number was seen before is popped.
deduplicate_phone_numbers(phone_nos, country_code) ==
  LET RECURSIVE F(_, _, _)
      F(i, seen_numbers, kept) ==
        IF i > Len(phone_nos) THEN kept
        ELSE LET e164_number == convert_to_e164(phone_nos[i].phone, country_code)
                 phone == IF is_valid_e164_number(phone_nos[i].phone)
                          THEN phone_nos[i].phone ELSE e164_number
             IN IF ~is_valid_e164_number(phone_nos[i].phone) /\ ~Truthy(e164_number)
                THEN F(i + 1, seen_numbers, Append(kept, phone_nos[i]))
                ELSE IF phone \in seen_numbers
                     THEN F(i + 1, seen_numbers, kept)
                     ELSE F(i + 1, seen_numbers \cup {phone},
                            Append(kept, [phone_nos[i] EXCEPT !.phone = phone]))
  IN F(1, {}, <<>>)

InitContact ==
  /\ comms = {}
  /\ nextName = 1
  /\ now = 1
  /\ ret = NoResponse
  /\ members = {}
  /\ texts = {}
  /\ settings = NoSettings
  /\ subscriptions = {}
  /\ \/ \E k \in 0..MaxEmails :
          \E emails \in [1..k -> EmailStrings] :
             contacts = {ContactDoc(1, <<"n">>, emails, <<>>)}
     \/ \E k \in 1..MaxPhones :
          \E numbers \in [1..k -> PhoneStrings] :
             contacts = {ContactDoc(1, <<"n">>, <<>>, numbers)}

DeduplicateEmails ==
  /\ \E doc \in contacts :
       /\ contacts' = (contacts \ {doc})
                        \cup {[doc EXCEPT !.email_ids = deduplicate_emails(doc.email_ids)]}
       /\ ret' = [NoResponse EXCEPT !.op = "deduplicate_emails", !.contact = doc.name]
  /\ UNCHANGED <<comms, nextName, now, members, texts, settings, subscriptions>>

DeduplicatePhoneNumbers ==
  /\ \E doc \in contacts, country_code \in CountryCodes :
       /\ contacts' = (contacts \ {doc})
                        \cup {[doc EXCEPT !.phone_nos =
                                 deduplicate_phone_numbers(doc.phone_nos, country_code)]}
       /\ ret' = [NoResponse EXCEPT !.op = "deduplicate_phone_numbers",
                                    !.contact = doc.name, !.medium = <<country_code>>]
  /\ UNCHANGED <<comms, nextName, now, members, texts, settings, subscriptions>>

NextContact ==
  \/ DeduplicateEmails
  \/ DeduplicatePhoneNumbers

SpecContact == InitContact /\ [][NextContact]_vars

\* ------------------------------------------------ primary phone numbers
\* SpecPrimary: one contact with up to MaxRows phone rows in E.164 form,
\* each validated before as mobile or as another line, or not validated,
\* and each with or without the two primary flags; the contact is validated
\* with number validation enabled, the Twilio lookup answering per number.
MaxRows == 2

\* The numbers of the rows.
E164Numbers == {<<"+", "1">>, <<"+", "2">>}

\* What validate_number returns: (True, carrier type) or (False, "").
Lookups ==
  {[is_valid |-> TRUE, carrier_type |-> "mobile"],
   [is_valid |-> TRUE, carrier_type |-> "landline"],
   [is_valid |-> FALSE, carrier_type |-> ""]}

\* A Contact Phone row as an earlier validation with the result prior left
\* it, with the flags the user set since.
PhoneRow(i, phone, prior, is_primary_phone, is_primary_mobile_no) ==
  [idx |-> i, phone |-> phone, is_primary_phone |-> is_primary_phone,
   is_primary_mobile_no |-> is_primary_mobile_no, is_valid |-> prior.is_valid,
   carrier_type |-> prior.carrier_type,
   validated_number |-> IF prior.is_valid THEN phone ELSE Empty]

\* Contact.validate_phone_numbers; lookup[phone] is the result of
\* validate_number(phone, client).
validate_phone_numbers(phone_nos, lookup) ==
  [i \in DOMAIN phone_nos |->
     LET phone_entry == phone_nos[i]
         result == lookup[phone_entry.phone]
     IN IF ~Truthy(phone_entry.validated_number)
           \/ phone_entry.validated_number # phone_entry.phone
        THEN IF result.is_valid
             THEN [phone_entry EXCEPT !.is_valid = TRUE,
                                      !.carrier_type = result.carrier_type,
                                      !.validated_number = phone_entry.phone,
                                      !.is_primary_mobile_no =
                                         @ /\ result.carrier_type = "mobile"]
             ELSE [phone_entry EXCEPT !.is_valid = FALSE,
                                      !.carrier_type = "",
                                      !.validated_number = Empty]
        ELSE phone_entry]

\* The first of the rows picked by the indexes in rows.
FirstOf(rows) == CHOOSE i \in rows : \A j \in rows : i <= j

\* Contact.set_primary_numbers
set_primary_numbers(phone_nos) ==
  LET valid_numbers == {i \in DOMAIN phone_nos : phone_nos[i].is_valid}
      flagged_primary == {i \in DOMAIN phone_nos : phone_nos[i].is_primary_phone}
      with_primary ==
        IF flagged_primary = {} \/ ~phone_nos[FirstOf(flagged_primary)].is_valid
        THEN [i \in DOMAIN phone_nos |->
                [phone_nos[i] EXCEPT !.is_primary_phone = (i = FirstOf(valid_numbers))]]
        ELSE phone_nos
      flagged_mobile == {i \in DOMAIN phone_nos : phone_nos[i].is_primary_mobile_no}
      valid_mobiles == {i \in valid_numbers : phone_nos[i].carrier_type = "mobile"}
      reset_mobile ==
        [i \in DOMAIN phone_nos |->
           [with_primary[i] EXCEPT !.is_primary_mobile_no =
                                      valid_mobiles # {} /\ i = FirstOf(valid_mobiles)]]
  IN IF valid_numbers = {} THEN phone_nos
     ELSE IF flagged_mobile # {}
          THEN IF \/ ~phone_nos[FirstOf(flagged_mobile)].is_valid
                  \/ phone_nos[FirstOf(flagged_mobile)].carrier_type # "mobile"
               THEN reset_mobile
               ELSE with_primary
          ELSE IF valid_mobiles # {}
               THEN [with_primary EXCEPT ![FirstOf(valid_mobiles)].is_primary_mobile_no = TRUE]
               ELSE with_primary

\* Contact.validate with number validation enabled in Messaging Settings.
Contact_validate(doc, country_code, lookup) ==
  [doc EXCEPT !.email_ids = deduplicate_emails(@),
              !.phone_nos = set_primary_numbers(
                              validate_phone_numbers(
                                deduplicate_phone_numbers(@, country_code), lookup))]

InitPrimary ==
  /\ comms = {}
  /\ nextName = 1
  /\ now = 1
  /\ ret = NoResponse
  /\ members = {}
  /\ texts = {}
  /\ settings = NoSettings
  /\ subscriptions = {}
  /\ \E k \in 1..MaxRows :
       \E phone \in [1..k -> E164Numbers], prior \in [1..k -> Lookups],
          is_primary_phone \in [1..k -> BOOLEAN], is_primary_mobile_no \in [1..k -> BOOLEAN] :
         contacts = {[ContactDoc(1, <<"n">>, <<>>, <<>>) EXCEPT !.phone_nos =
                        [i \in 1..k |-> PhoneRow(i, phone[i], prior[i], is_primary_phone[i],
                                                 is_primary_mobile_no[i])]]}

\* The contact is saved: validate runs.
ValidateContact ==
  /\ \E doc \in contacts, lookup \in [E164Numbers -> Lookups] :
       /\ contacts' = (contacts \ {doc}) \cup {Contact_validate(doc, "US", lookup)}
       /\ ret' = [NoResponse EXCEPT !.op = "validate", !.contact = doc.name]
  /\ UNCHANGED <<comms, nextName, now, members, texts, settings, subscriptions>>

NextPrimary == ValidateContact

SpecPrimary == InitPrimary /\ [][NextPrimary]_vars

\* ------------------------------------------------------ group text messages
\* SpecTexts: MaxTexts Group Text Messages, immediate or scheduled, on a site
\* with two contacts in the groups; each message is sent at most MaxSends
\* times.
MaxTexts == 2
MaxSends == 2

GroupNames == {<<"G1">>, <<"G2">>}

TextName(i) == <<"GTM", ToString(i)>>

\* A Messaging Group Member row: its name, its group and its contact.
MemberRow(n, parent, contact) == [name |-> n, parent |-> parent, contact |-> contact]

\* The Messaging Group Member rows of a contact in a group.
GroupMemberRows(member_rows, group, contact_name) ==
  {row \in member_rows : row.parent = group /\ row.contact = contact_name}

\* The name of a new child row of the contact in the group, distinct from
\* the names of the rows there are.
NewRowName(member_rows, group, contact_name) ==
  <<group, contact_name, Cardinality(GroupMemberRows(member_rows, group, contact_name)) + 1>>

\* A Group Text Message document to one target group and without excluded
\* groups; comments holds the recipients of every send, as the "Sent to ..."
\* comments do.
GroupTextMessage(i, schedule, delivery_datetime, messaging_group) ==
  [name |-> TextName(i), schedule |-> schedule, delivery_datetime |-> delivery_datetime,
   messaging_group |-> {messaging_group}, exclude_groups |-> {}, status |-> "Draft",
   docstatus |-> 0, comments |-> <<>>]

\* Mutant of contact_phone_numbers: the excluded groups are not looked at.
contact_phone_numbers_without_exclusion(contact_docs, member_rows, text) ==
  LET contact_query ==
        {row.contact : row \in {r \in member_rows :
                                  /\ r.parent \in text.messaging_group
                                  /\ \E d \in contact_docs : d.name = r.contact /\ d.consent_sms}}
  IN UNION {{d.phone_nos[i].phone :
               i \in {j \in 1..Len(d.phone_nos) : /\ d.phone_nos[j].is_primary_mobile_no
                                                  /\ d.phone_nos[j].is_valid}} :
            d \in {e \in contact_docs : e.name \in contact_query}}

\* The phone numbers send_text_message selects.  contact_query: the
\* contacts of the member rows of the target groups, joined with Contact on
\* consent_sms = 1 and, if there are excluded groups, not among the contacts
\* of their member rows; then the phone of the Contact Phone rows of these
\* contacts with is_primary_mobile_no = 1 and is_valid = 1.
contact_phone_numbers(contact_docs, member_rows, text) ==
  LET contacts_in_excluded_groups ==
        {row.contact : row \in {r \in member_rows : r.parent \in text.exclude_groups}}
      contact_query ==
        {row.contact : row \in {r \in member_rows :
                                  /\ r.parent \in text.messaging_group
                                  /\ \E d \in contact_docs : d.name = r.contact /\ d.consent_sms
                                  /\ text.exclude_groups # {}
                                       => r.contact \notin contacts_in_excluded_groups}}
  IN UNION {{d.phone_nos[i].phone :
               i \in {j \in 1..Len(d.phone_nos) : /\ d.phone_nos[j].is_primary_mobile_no
                                                  /\ d.phone_nos[j].is_valid}} :
            d \in {e \in contact_docs : e.name \in contact_query}}

\* GroupTextMessage.send_text_message: send_sms to the numbers, a comment,
\* then delivery_datetime and status Sent are saved.
send_text_message(text, contact_docs, member_rows, today) ==
  [text EXCEPT !.comments = Append(@, contact_phone_numbers(contact_docs, member_rows, text)),
               !.delivery_datetime = today,
               !.status = "Sent"]

\* GroupTextMessage.on_submit
on_submit(text, contact_docs, member_rows, today) ==
  IF text.schedule
  THEN [text EXCEPT !.status = "Scheduled", !.docstatus = 1]
  ELSE send_text_message([text EXCEPT !.docstatus = 1], contact_docs, member_rows, today)

\* The rows of send_scheduled_messages' query.
ScheduledRows(text_docs, today) ==
  {d \in text_docs : d.delivery_datetime <= today /\ d.status = "Scheduled"}

\* send_scheduled_messages(): run(as_list=True)[0] raises IndexError without
\* rows; with rows it is the first row, a list of one name, and
\* group_text_name["name"] on that name raises TypeError.  No message is
\* sent either way.
send_scheduled_messages(text_docs, today) ==
  IF ScheduledRows(text_docs, today) = {}
  THEN [texts |-> text_docs, raised |-> TRUE, error |-> <<"IndexError">>]
  ELSE [texts |-> text_docs, raised |-> TRUE, error |-> <<"TypeError">>]

InitTexts ==
  /\ comms = {}
  /\ nextName = 1
  /\ now = 1
  /\ ret = NoResponse
  /\ settings = NoSettings
  /\ subscriptions = {}
  /\ contacts = {ContactDoc(1, <<"n">>, <<>>, << <<"a">> >>),
                 ContactDoc(2, Empty, <<>>, << <<"b">> >>)}
  /\ \E f \in [1..MaxContacts -> GroupNames] :
       members = {MemberRow(NewRowName({}, f[i], ContactName(i)), f[i], ContactName(i)) :
                    i \in 1..MaxContacts}
  /\ \E s \in [1..MaxTexts -> BOOLEAN], d \in [1..MaxTexts -> 1..MaxDate] :
       texts = {GroupTextMessage(i, s[i], d[i], <<"G1">>) : i \in 1..MaxTexts}

\* GroupTextMessage.validate and on_submit of a draft.
Submit ==
  /\ \E text \in texts :
       /\ text.docstatus = 0
       /\ IF text.schedule /\ text.delivery_datetime < now
          THEN /\ texts' = texts
               /\ ret' = [NoResponse EXCEPT !.op = "submit", !.message = text.name,
                                            !.raised = TRUE,
                                            !.error = <<"Scheduled delivery must be in the future.">>]
          ELSE /\ texts' = (texts \ {text}) \cup {on_submit(text, contacts, members, now)}
               /\ ret' = [NoResponse EXCEPT !.op = "submit", !.message = text.name]
  /\ UNCHANGED <<comms, nextName, now, contacts, members, settings, subscriptions>>

\* The scheduler's job.
SendScheduledMessages ==
  /\ LET r == send_scheduled_messages(texts, now)
     IN /\ texts' = r.texts
        /\ ret' = [NoResponse EXCEPT !.op = "send_scheduled_messages",
                                     !.raised = r.raised, !.error = r.error]
  /\ UNCHANGED <<comms, nextName, now, contacts, members, settings, subscriptions>>

\* The whitelisted method send_text_message, called on a submitted message.
SendTextMessage ==
  /\ \E text \in texts :
       /\ text.docstatus = 1
       /\ Len(text.comments) < MaxSends
       /\ texts' = (texts \ {text}) \cup {send_text_message(text, contacts, members, now)}
       /\ ret' = [NoResponse EXCEPT !.op = "send_text_message", !.message = text.name]
  /\ UNCHANGED <<comms, nextName, now, contacts, members, settings, subscriptions>>

\* Time passes.
Tick ==
  /\ now < MaxDate + 1
  /\ now' = now + 1
  /\ ret' = [NoResponse EXCEPT !.op = "tick"]
  /\ UNCHANGED <<comms, nextName, contacts, members, texts, settings, subscriptions>>

NextTexts ==
  \/ Submit
  \/ SendScheduledMessages
  \/ SendTextMessage
  \/ Tick

SpecTexts == InitTexts /\ [][NextTexts]_vars

\* ------------------------------------------- recipients of a group text
\* SpecRecipients: two contacts with and without SMS consent, each with a
\* first number that may be the primary mobile number and may be valid and
\* a second number that is not primary, in any of the groups; one submitted
\* scheduled message with target groups and excluded groups is sent.

\* The contact i with its two numbers.
RecipientDoc(i, consent_sms, is_primary_mobile_no, is_valid) ==
  [ContactDoc(i, <<"n">>, <<>>, << <<"m", ToString(i)>>, <<"l", ToString(i)>> >>)
     EXCEPT !.consent_sms = consent_sms,
            !.phone_nos[1].is_primary_mobile_no = is_primary_mobile_no,
            !.phone_nos[1].is_valid = is_valid,
            !.phone_nos[2].carrier_type = "landline"]

InitRecipients ==
  /\ comms = {}
  /\ nextName = 1
  /\ now = 1
  /\ ret = NoResponse
  /\ settings = NoSettings
  /\ subscriptions = {}
  /\ \E c \in [1..2 -> BOOLEAN], p \in [1..2 -> BOOLEAN], v \in [1..2 -> BOOLEAN] :
       contacts = {RecipientDoc(i, c[i], p[i], v[i]) : i \in 1..2}
  /\ \E f \in [1..2 -> SUBSET GroupNames] :
       members = {MemberRow(NewRowName({}, g, ContactName(i)), g, ContactName(i)) :
                    <<i, g>> \in {x \in (1..2) \X GroupNames : x[2] \in f[x[1]]}}
  /\ \E targets \in (SUBSET GroupNames) \ {{}}, excluded \in SUBSET GroupNames :
       texts = {[GroupTextMessage(1, TRUE, MaxDate, <<"G1">>)
                   EXCEPT !.messaging_group = targets, !.exclude_groups = excluded,
                          !.status = "Scheduled", !.docstatus = 1]}

NextRecipients == SendTextMessage

SpecRecipients == InitRecipients /\ [][NextRecipients]_vars

\* ------------------------------------------------- messaging group members
\* SpecGroups: MaxContacts contacts and the groups of GroupNames, one of
\* which may be the all-contacts group of Messaging Settings; contacts are
\* added to groups, removed from them, and deleted.

\* The documents the group operations read and write.
Site(contact_docs, member_rows, conf) ==
  [contacts |-> contact_docs, members |-> member_rows,
   all_contacts_group |-> conf.all_contacts_group]

\* Mutant of add_contact: the row is appended without the exists test.
add_contact_unguarded(site, group, contact_name) ==
  [site EXCEPT !.members = @ \cup {MemberRow(NewRowName(@, group, contact_name), group, contact_name)}]

RECURSIVE add_contact(_, _, _)
RECURSIVE LinkMembers(_, _, _)

\* MessagingGroup.on_update: every member without Dynamic Link to the group
\* gets the link, and its Contact is saved.
MessagingGroup_on_update(site, group) ==
  LinkMembers(site, group,
              {d.name : d \in {e \in site.contacts :
                                 /\ GroupMemberRows(site.members, group, e.name) # {}
                                 /\ group \notin e.links}})

\* Contact.on_update: add_to_all_contacts_group.
Contact_on_update(site, contact_name) ==
  IF Truthy(site.all_contacts_group)
  THEN add_contact(site, site.all_contacts_group, contact_name)
  ELSE site

\* The loop of MessagingGroup.on_update over the members to link.
LinkMembers(site, group, unlinked) ==
  IF unlinked = {} THEN site
  ELSE LET contact_name == CHOOSE c \in unlinked : TRUE
           linked == [site EXCEPT !.contacts =
                        {IF d.name = contact_name THEN [d EXCEPT !.links = @ \cup {group}]
                         ELSE d : d \in @}]
       IN LinkMembers(Contact_on_update(linked, contact_name), group,
                      unlinked \ {contact_name})

\* MessagingGroup.add_contact: unless a row for the contact exists, a row is
\* appended and the group saved.
add_contact(site, group, contact_name) ==
  IF GroupMemberRows(site.members, group, contact_name) # {}
  THEN site
  ELSE MessagingGroup_on_update(
         [site EXCEPT !.members = @ \cup {MemberRow(NewRowName(@, group, contact_name), group, contact_name)}],
         group)

\* MessagingGroup.unlink_contact_from_messaging_group
unlink_contact_from_messaging_group(site, group, contact_name) ==
  [site EXCEPT !.contacts =
     {IF d.name = contact_name THEN [d EXCEPT !.links = @ \ {group}] ELSE d : d \in @}]

\* MessagingGroup.remove_contact: the row frappe.db.exists finds is removed,
\* the contact unlinked and the group saved.
remove_contact(site, group, contact_name) ==
  IF GroupMemberRows(site.members, group, contact_name) = {}
  THEN site
  ELSE LET mgm == CHOOSE row \in GroupMemberRows(site.members, group, contact_name) : TRUE
       IN MessagingGroup_on_update(
            unlink_contact_from_messaging_group(
              [site EXCEPT !.members = @ \ {mgm}], group, contact_name),
            group)

\* Contact.on_trash and the deletion of the contact: every member row of
\* the contact is deleted.
Contact_on_trash(site, contact_name) ==
  [site EXCEPT !.members = {row \in @ : row.contact # contact_name},
               !.contacts = {d \in @ : d.name # contact_name}]

InitGroups ==
  /\ comms = {}
  /\ nextName = 1
  /\ now = 1
  /\ ret = NoResponse
  /\ texts = {}
  /\ members = {}
  /\ contacts = {ContactDoc(i, <<"n">>, <<>>, <<>>) : i \in 1..MaxContacts}
  /\ \E all_contacts_group \in {None} \cup GroupNames :
       settings = [NoSettings EXCEPT !.all_contacts_group = all_contacts_group]
  /\ subscriptions = {}

\* Contact.add_to_group(group_name)
AddToGroup ==
  /\ \E doc \in contacts, group_name \in GroupNames :
       LET site == add_contact(Site(contacts, members, settings), group_name, doc.name)
       IN /\ contacts' = site.contacts
          /\ members' = site.members
          /\ ret' = [NoResponse EXCEPT !.op = "add_to_group", !.contact = doc.name,
                                       !.group = group_name]
  /\ UNCHANGED <<comms, nextName, now, texts, settings, subscriptions>>

\* Contact.remove_from_group(group_name)
RemoveFromGroup ==
  /\ \E doc \in contacts, group_name \in GroupNames :
       LET site == remove_contact(Site(contacts, members, settings), group_name, doc.name)
       IN /\ contacts' = site.contacts
          /\ members' = site.members
          /\ ret' = [NoResponse EXCEPT !.op = "remove_from_group", !.contact = doc.name,
                                       !.group = group_name]
  /\ UNCHANGED <<comms, nextName, now, texts, settings, subscriptions>>

\* A contact is deleted.
DeleteContact ==
  /\ \E doc \in contacts :
       LET site == Contact_on_trash(Site(contacts, members, settings), doc.name)
       IN /\ contacts' = site.contacts
          /\ members' = site.members
          /\ ret' = [NoResponse EXCEPT !.op = "delete_contact", !.contact = doc.name]
  /\ UNCHANGED <<comms, nextName, now, texts, settings, subscriptions>>

NextGroups ==
  \/ AddToGroup
  \/ RemoveFromGroup
  \/ DeleteContact

SpecGroups == InitGroups /\ [][NextGroups]_vars

\* ------------------------------------------------ send_message into a thread
\* SpecThread starts on every store of at most MaxComms records exchanged
\* with party a, SMS or email, received (open) or sent, MaxDate dates apart,
\* and sends one message to the SMS, Phone, Email or Chat room of party a.
Chat == <<"Chat">>

ThreadVariants == [sor : {"Received", "Sent"}, medium : {SMS, Email}, date : 1..MaxDate]

ThreadStoreRecord(n, v) ==
  IF v.sor = "Received"
  THEN InboundCommunication(n, v.medium, <<"a">>, v.date)
  ELSE NewCommunication(n, v.date, v.medium, <<"a">>,
                        parse_room_id(format_room_id(v.medium, <<"a">>, None, None)), Empty)

SendRoomIds ==
  {format_room_id(m, <<"a">>, None, None) : m \in {SMS, Phone, Email, Chat}}

InitThread ==
  /\ nextName = MaxComms + 1
  /\ now = MaxDate + 1
  /\ ret = NoResponse
  /\ NoDocs
  /\ \E k \in 0..MaxComms :
       \E f \in [1..k -> ThreadVariants] :
          comms = {ThreadStoreRecord(i, f[i]) : i \in 1..k}

\* One call of send_message on the initial store, without reply_message_id
\* or in reply to the first record; the update of the answered record's
\* status may fail.
SendInThread ==
  /\ nextName = MaxComms + 1
  /\ \E room_id \in SendRoomIds, reply_message_id \in {Empty, Name(1)},
        faults \in {{}, {"status"}} :
       \E rows \in LatestRows(comms, room_id) :
          LET r == send_message(comms, rows, room_id, reply_message_id, nextName, now, faults)
              inserted == \E c \in r.store : c.name = Name(nextName)
          IN /\ comms' = r.store
             /\ nextName' = IF inserted THEN nextName + 1 ELSE nextName
             /\ now' = IF inserted THEN now + 1 ELSE now
             /\ ret' = [NoResponse EXCEPT !.op = "send_message", !.room_id = room_id,
                                          !.reply_message_id = reply_message_id,
                                          !.faults = faults, !.raised = r.raised,
                                          !.success = r.success,
                                          !.message = r.message, !.error = r.error]
  /\ UNCHANGED docs

NextThread == SendInThread

SpecThread == InitThread /\ [][NextThread]_vars

\* ------------------------------------------- the operations on a listed room
\* SpecSelect starts on every store of at most MaxComms records of one date:
\* SMS from and to number a, email received from a or b, email sent to a or
\* to "b,a"; get_rooms lists the rooms and get_messages, archive_room and
\* delete_room are called with a listed roomId.
SelectVariants ==
  [sor : {"Received"}, medium : {SMS}, party : {<<"a">>}]
    \cup [sor : {"Sent"}, medium : {SMS}, party : {<<"a">>}]
    \cup [sor : {"Received"}, medium : {Email}, party : {<<"a">>, <<"b">>}]
    \cup [sor : {"Sent"}, medium : {Email}, party : {<<"a">>, <<"b", Comma, "a">>}]

SelectRecord(n, v) ==
  IF v.sor = "Received"
  THEN InboundCommunication(n, v.medium, v.party, 1)
  ELSE NewCommunication(n, 1, v.medium, v.party, parse_room_id(Empty), Empty)

InitSelect ==
  /\ nextName = MaxComms + 1
  /\ now = 1
  /\ ret = NoResponse
  /\ NoDocs
  /\ \E k \in 0..MaxComms :
       \E f \in [1..k -> SelectVariants] :
          comms = {SelectRecord(i, f[i]) : i \in 1..k}

\* get_messages(roomId) for a room of the list get_rooms returned.
GetMessagesListed ==
  /\ ret.op = "get_rooms"
  /\ \E k \in 1..Len(ret.rooms) :
       \E rows \in MessageRows(comms, ret.rooms[k].roomId) :
          LET r == get_messages(comms, rows, ret.rooms[k].roomId, 1, 0)
          IN ret' = [NoResponse EXCEPT !.op = "get_messages",
                                       !.room_id = ret.rooms[k].roomId,
                                       !.messages = r.messages, !.total = r.total,
                                       !.page = r.page, !.limit = DefaultMessagesLimit,
                                       !.hasMore = r.hasMore]
  /\ UNCHANGED <<comms, nextName, now>>
  /\ UNCHANGED docs

\* archive_room(roomId) for a room of the list get_rooms returned.
ArchiveListed ==
  /\ ret.op = "get_rooms"
  /\ \E k \in 1..Len(ret.rooms) :
       LET r == archive_room(comms, ret.rooms[k].roomId)
       IN /\ comms' = r.store
          /\ ret' = [NoResponse EXCEPT !.op = "archive_room",
                                       !.room_id = ret.rooms[k].roomId,
                                       !.success = r.success, !.count = r.count,
                                       !.error = r.error]
  /\ UNCHANGED <<nextName, now>>
  /\ UNCHANGED docs

\* delete_room(roomId) for a room of the list get_rooms returned; no
\* deletion fails.
DeleteListed ==
  /\ ret.op = "get_rooms"
  /\ \E k \in 1..Len(ret.rooms) :
       LET r == delete_room(comms, ret.rooms[k].roomId, {})
       IN /\ comms' = r.store
          /\ ret' = [NoResponse EXCEPT !.op = "delete_room",
                                       !.room_id = ret.rooms[k].roomId,
                                       !.success = r.success, !.count = r.count,
                                       !.error = r.error]
  /\ UNCHANGED <<nextName, now>>
  /\ UNCHANGED docs

NextSelect ==
  \/ GetRooms
  \/ GetMessagesListed
  \/ ArchiveListed
  \/ DeleteListed

SpecSelect == InitSelect /\ [][NextSelect]_vars

\* ------------------------------------------------ send_message: the subject
\* SpecSubject derives the subject send_message stores from the room's
\* medium, the subject the caller supplied (none or x) and the subject of
\* the record answered (unknown, empty or a string of at most MaxSubject
\* characters), and derives it again for a second send without subject
\* that answers the record just stored.
MaxSubject == 3

SubjectChars == {"R", "r", "e", Colon, "x"}

RePrefix == <<"R", "e", Colon, " ">>

MessageTo == <<"Message to ">>

\* Mutant of derive_subject: an original subject is always prefixed.
derive_subject_always_prefixed(medium, subject, original_subject, identifier) ==
  IF Truthy(subject) THEN subject
  ELSE IF medium = Email /\ Truthy(original_subject)
       THEN RePrefix \o original_subject
       ELSE MessageTo \o identifier

\* send_message: "Auto-generate subject".
derive_subject(medium, subject, original_subject, identifier) ==
  IF Truthy(subject) THEN subject
  ELSE IF medium = Email
       THEN IF Truthy(original_subject)
            THEN IF PySlice(Lower(original_subject), 0, 3) = <<"r", "e", Colon>>
                 THEN original_subject
                 ELSE RePrefix \o original_subject
            ELSE MessageTo \o identifier
       ELSE MessageTo \o identifier

InitSubject ==
  /\ comms = {}
  /\ nextName = 1
  /\ now = 1
  /\ NoDocs
  /\ \E medium \in {SMS, Phone, Email}, subject \in {Empty, <<"x">>}, k \in 0..MaxSubject :
       \E original_subject \in {None} \cup [1..k -> SubjectChars] :
          ret = [NoResponse EXCEPT !.op = "subject_input", !.medium = medium,
                                   !.identifier = <<"a">>, !.subject = subject,
                                   !.original_subject = original_subject]

\* The subject of the send; message is the subject stored.
DeriveSubject ==
  /\ ret.op = "subject_input"
  /\ ret' = [ret EXCEPT !.op = "derive_subject",
                        !.message = derive_subject(ret.medium, ret.subject,
                                                   ret.original_subject, ret.identifier)]
  /\ UNCHANGED <<comms, nextName, now>>
  /\ UNCHANGED docs

\* The subject of a second send, without subject, that answers the record
\* of the first.
DeriveAgain ==
  /\ ret.op = "derive_subject"
  /\ ret' = [ret EXCEPT !.op = "derive_again",
                        !.subject = Empty,
                        !.original_subject = ret.message,
                        !.message = derive_subject(ret.medium, Empty, ret.message,
                                                   ret.identifier)]
  /\ UNCHANGED <<comms, nextName, now>>
  /\ UNCHANGED docs

NextSubject ==
  \/ DeriveSubject
  \/ DeriveAgain

SpecSubject == InitSubject /\ [][NextSubject]_vars

\* -------------------------------------------------------- push subscriptions
\* api/chat/push.py.  A Push Subscription document has a name, the user, the
\* endpoint and the keys of subscription_json.  SpecPush saves and removes
\* subscriptions of two users and of Guest; SpecPushSend sends a push to a
\* user of a site with at most MaxSubs subscriptions.
MaxSubs == 3

Guest == <<"Guest">>

PushUsers == {<<"u1">>, <<"u2">>}

Endpoints == {<<"e1">>, <<"e2">>}

PushKeys == {<<"k1">>, <<"k2">>}

SubscriptionName(n) == <<"PUSH", n>>

\* The subscription objects a browser posts: with or without endpoint.
SubData == [endpoint : Endpoints \cup {Empty}, p256dh : PushKeys]

\* Mutant of save_push_subscription: a document is inserted whether or not
\* the endpoint is registered.
save_push_subscription_insert_only(store, user, sub_data, n) ==
  IF user = Guest
  THEN [store |-> store, raised |-> TRUE, success |-> FALSE, existing |-> None,
        error |-> <<"Authentication required">>]
  ELSE IF ~Truthy(sub_data.endpoint)
       THEN [store |-> store, raised |-> TRUE, success |-> FALSE, existing |-> None,
             error |-> <<"Invalid subscription: missing endpoint">>]
       ELSE [store |-> store \cup {[name |-> SubscriptionName(n), user |-> user,
                                    endpoint |-> sub_data.endpoint,
                                    p256dh_key |-> sub_data.p256dh,
                                    auth_key |-> sub_data.p256dh]},
             raised |-> FALSE, success |-> TRUE, existing |-> None, error |-> None]

\* save_push_subscription(subscription) of the session user; n numbers a new
\* document.  frappe.db.exists returns the name of a matching document.
save_push_subscription(store, user, sub_data, n) ==
  IF user = Guest
  THEN [store |-> store, raised |-> TRUE, success |-> FALSE, existing |-> None,
        error |-> <<"Authentication required">>]
  ELSE IF ~Truthy(sub_data.endpoint)
       THEN [store |-> store, raised |-> TRUE, success |-> FALSE, existing |-> None,
             error |-> <<"Invalid subscription: missing endpoint">>]
       ELSE LET matching == {s \in store : s.user = user /\ s.endpoint = sub_data.endpoint}
            IN IF matching # {}
               THEN LET existing == (CHOOSE s \in matching : TRUE).name
                    IN [store |-> {IF s.name = existing
                                   THEN [s EXCEPT !.p256dh_key = sub_data.p256dh,
                                                  !.auth_key = sub_data.p256dh]
                                   ELSE s : s \in store},
                        raised |-> FALSE, success |-> TRUE, existing |-> existing,
                        error |-> None]
               ELSE [store |-> store \cup {[name |-> SubscriptionName(n), user |-> user,
                                            endpoint |-> sub_data.endpoint,
                                            p256dh_key |-> sub_data.p256dh,
                                            auth_key |-> sub_data.p256dh]},
                     raised |-> FALSE, success |-> TRUE, existing |-> None,
                     error |-> None]

\* remove_push_subscription(endpoint) of the session user.
remove_push_subscription(store, user, endpoint) ==
  [store |-> {s \in store : ~(s.user = user /\ s.endpoint = endpoint)},
   success |-> TRUE]

\* What one webpush(...) call yields: a response with a status code, a
\* WebPushException (pywebpush raises it for a status above 202) whose text
\* carries the status code and the response body, or another exception
\* (json.loads, the connection).  The body "410" is a body in which the
\* digits 410 occur.
Outcomes ==
  [kind : {"response"}, status : {"200", "201", "410"}, text : {Empty}]
    \cup {[kind |-> "WebPushException", status |-> st, text |-> <<"Push failed: ", st>>] :
            st \in {"404"}}
    \cup {[kind |-> "WebPushException", status |-> "500",
           text |-> <<"Push failed: ", "500">> \o body] : body \in {Empty, <<"410">>}}
    \cup {[kind |-> "Exception", status |-> "", text |-> <<"error">>]}

\* "410" in str(e) or "404" in str(e)
Mentions(text, code) == \E i \in 1..Len(text) : text[i] = code

\* One iteration of the loop over the subscriptions: acc holds sent and
\* stale_subs.
PushOne(acc, sub, outcome) ==
  IF outcome.kind = "response"
  THEN IF outcome.status \in {"200", "201"}
       THEN [acc EXCEPT !.sent = @ + 1, !.attempted = @ \cup {sub.name}]
       ELSE IF outcome.status \in {"404", "410"}
            THEN [acc EXCEPT !.stale_subs = @ \cup {sub.name},
                             !.attempted = @ \cup {sub.name}]
            ELSE [acc EXCEPT !.attempted = @ \cup {sub.name}]
  ELSE IF outcome.kind = "WebPushException"
       THEN IF Mentions(outcome.text, "410") \/ Mentions(outcome.text, "404")
            THEN [acc EXCEPT !.stale_subs = @ \cup {sub.name},
                             !.attempted = @ \cup {sub.name}]
            ELSE [acc EXCEPT !.attempted = @ \cup {sub.name}]
       ELSE [acc EXCEPT !.attempted = @ \cup {sub.name}]

\* The loop, over the user's subscriptions newest first.
RECURSIVE PushAll(_, _, _)
PushAll(acc, subs, outcomes) ==
  IF subs = {} THEN acc
  ELSE LET sub == CHOOSE s \in subs : \A o \in subs : o.name[2] <= s.name[2]
       IN PushAll(PushOne(acc, sub, outcomes[sub.name]), subs \ {sub}, outcomes)

\* send_push_to_user(user, title, body); outcomes gives what webpush yields
\* for each subscription.
send_push_to_user(store, conf, user, outcomes) ==
  IF ~Truthy(conf.vapid_public_key) \/ ~Truthy(conf.vapid_private_key_secret)
  THEN [store |-> store, sent |-> 0, attempted |-> {}, raised |-> FALSE]
  ELSE LET mine == {s \in store : s.user = user}
           acc == PushAll([sent |-> 0, stale_subs |-> {}, attempted |-> {}], mine, outcomes)
       IN [store |-> {s \in store : s.name \notin acc.stale_subs},
           sent |-> acc.sent, attempted |-> acc.attempted, raised |-> FALSE]

\* A site without subscriptions.
InitPush ==
  /\ comms = {}
  /\ nextName = 1
  /\ now = 1
  /\ ret = NoResponse
  /\ NoDocs

SavePushSubscription ==
  /\ nextName <= MaxSubs
  /\ \E user \in PushUsers \cup {Guest}, sub_data \in SubData :
       LET r == save_push_subscription(subscriptions, user, sub_data, nextName)
           inserted == \E s \in r.store : s.name = SubscriptionName(nextName)
       IN /\ subscriptions' = r.store
          /\ nextName' = IF inserted THEN nextName + 1 ELSE nextName
          /\ ret' = [NoResponse EXCEPT !.op = "save_push_subscription", !.user = user,
                                       !.endpoint = sub_data.endpoint,
                                       !.keys = sub_data.p256dh,
                                       !.message = r.existing,
                                       !.raised = r.raised, !.success = r.success,
                                       !.error = r.error]
  /\ UNCHANGED <<comms, now, contacts, members, texts, settings>>

RemovePushSubscription ==
  /\ \E user \in PushUsers \cup {Guest}, endpoint \in Endpoints :
       LET r == remove_push_subscription(subscriptions, user, endpoint)
       IN /\ subscriptions' = r.store
          /\ ret' = [NoResponse EXCEPT !.op = "remove_push_subscription", !.user = user,
                                       !.endpoint = endpoint, !.success = r.success]
  /\ UNCHANGED <<comms, nextName, now, contacts, members, texts, settings>>

SendPushToUser ==
  /\ \E user \in PushUsers :
       \E outcomes \in [{s.name : s \in {d \in subscriptions : d.user = user}} -> Outcomes] :
          LET r == send_push_to_user(subscriptions, settings, user, outcomes)
          IN /\ subscriptions' = r.store
             /\ ret' = [NoResponse EXCEPT !.op = "send_push_to_user", !.user = user,
                                          !.outcomes = outcomes, !.count = r.sent,
                                          !.attempted = r.attempted,
                                          !.raised = r.raised]
  /\ UNCHANGED <<comms, nextName, now, contacts, members, texts, settings>>

NextPush ==
  \/ SavePushSubscription
  \/ RemovePushSubscription

SpecPush == InitPush /\ [][NextPush]_vars

\* A site with or without the two VAPID keys and with at most MaxSubs
\* subscriptions, no two of one user and endpoint.
InitPushSend ==
  /\ comms = {}
  /\ now = 1
  /\ ret = NoResponse
  /\ contacts = {}
  /\ members = {}
  /\ texts = {}
  /\ \E public \in {None, <<"pub">>}, private \in {None, <<"priv">>} :
       settings = [NoSettings EXCEPT !.vapid_public_key = public,
                                     !.vapid_private_key_secret = private]
  /\ \E k \in 0..MaxSubs :
       \E f \in [1..k -> PushUsers \X Endpoints] :
          /\ \A i \in 1..k, j \in 1..k : f[i] = f[j] => i = j
          /\ nextName = k + 1
          /\ subscriptions = {[name |-> SubscriptionName(i), user |-> f[i][1],
                                endpoint |-> f[i][2], p256dh_key |-> <<"k1">>,
                                auth_key |-> <<"k1">>] : i \in 1..k}

NextPushSend == SendPushToUser

SpecPushSend == InitPushSend /\ [][NextPushSend]_vars

\* =================================================================== claims
Names(store) == {c.name : c \in store}

Record(store, name) == CHOOSE c \in store : c.name = name

\* The room get_rooms groups a record into.
InRoom(c, room_id) == IsCommunication(c) /\ RoomIdOf(c) = room_id

ListedRoomIds(store) == {RoomIdOf(c) : c \in {d \in store : IsCommunication(d)}}

UnseenReceived(store, room_id) ==
  {c \in store : InRoom(c, room_id) /\ c.sent_or_received = "Received" /\ ~c.seen}

\* The room's unreadCount is 0 in whatever get_rooms returns for the store.
UnreadCountZero(store, room_id) ==
  \A rows \in OrderByDateDesc({c \in store : IsCommunication(c)}) :
     LET rooms == get_rooms(rows, 1, DefaultRoomsLimit).rooms
     IN \A k \in 1..Len(rooms) : rooms[k].roomId = room_id => rooms[k].unreadCount = 0

\* What C1 says of a call mark_messages_seen(room_id) from store to store2
\* that returned count.
MarkedSeen(store, store2, room_id, count) ==
  /\ count = Cardinality(UnseenReceived(store, room_id))
  /\ get_unread_count(store2) = get_unread_count(store) - count
  /\ UnreadCountZero(store2, room_id)
  /\ \A c \in store :
       ~InRoom(c, room_id) => \E d \in store2 : d.name = c.name /\ d.seen = c.seen

\* The external identifier of a listed room is not empty and has no ':'.
PlainRoom(store, room_id) ==
  \E c \in store :
     /\ InRoom(c, room_id)
     /\ ExternalIdentifier(c) # Empty
     /\ ~HasColon(ExternalIdentifier(c))

C2_InReplyToIsMessageId ==
  [][(/\ ret'.op = "send_message"
      /\ ret'.success
      /\ ret'.reply_message_id \in Names(comms))
       => LET T == Record(comms, ret'.reply_message_id)
              new == Record(comms', ret'.message)
          IN /\ new.in_reply_to = T.message_id
             /\ (Record(comms', T.name).status = <<"Replied">>)
                  <=> (T.sent_or_received = "Received")]_vars

C4_TransportFailureKept ==
  (/\ ret.op = "send_message"
   /\ ret.faults = {"transport"}
   /\ ValidRoom(parse_room_id(ret.room_id)))
    => /\ ~ret.raised
       /\ ret.success
       /\ \E c \in comms :
            /\ c.name = ret.message
            /\ c.sent_or_received = "Sent"
            /\ c.delivery_status = <<"Error">>

\* C4 witness: an SMS whose transport failed is stored with Error.
C4_Witness ==
  /\ ret.op = "send_message"
  /\ ret.faults = {"transport"}
  /\ ret.success
  /\ \E c \in comms :
       c.name = ret.message /\ c.communication_medium = SMS /\ c.delivery_status = <<"Error">>

\* Position of the first ':' of a room id, 0 when it has none.
FirstColon(s) ==
  IF HasColon(s)
  THEN CHOOSE i \in 1..Len(s) : s[i] = Colon /\ \A j \in 1..(i - 1) : s[j] # Colon
  ELSE 0

\* A room id without ':' separator, with an empty medium or with an empty
\* identifier.
MalformedRoomId(s) ==
  LET i == FirstColon(s)
  IN i = 0 \/ i = 1 \/ i = Len(s) \/ s[i + 1] = Colon

\* C10: a call with a malformed room id raises nothing and leaves every
\* Communication as it was; get_messages answers no messages, total 0 and
\* hasMore false, the other operations success=false (with count 0).
C10_MalformedRoomIdRejected ==
  [][(/\ ret'.op \in {"get_messages", "send_message", "mark_messages_seen",
                      "archive_room", "delete_room"}
      /\ MalformedRoomId(ret'.room_id))
       => /\ comms' = comms
          /\ ~ret'.raised
          /\ ret'.op = "get_messages"
               => ret'.messages = <<>> /\ ret'.total = 0 /\ ~ret'.hasMore
          /\ ret'.op # "get_messages" => ~ret'.success /\ ret'.count = 0
          /\ ret'.op = "send_message" => ret'.message = None]_vars

\* C10 witness: mark_messages_seen was called with the id of the listed room
\* of the records without phone number, whose unseen record stayed unseen.
C10_Witness ==
  /\ ret.op = "mark_messages_seen"
  /\ MalformedRoomId(ret.room_id)
  /\ ~ret.success
  /\ \E c \in comms :
       InRoom(c, ret.room_id) /\ c.sent_or_received = "Received" /\ ~c.seen

\* ------------------------------------------------------ claims on get_rooms
\* C5: in the list get_rooms returns, every room with hasUnreplied precedes
\* every room without, and within each group the rooms are ordered by their
\* representative date, most recent first.
C5_UnrepliedFirstThenRecent ==
  ret.op = "get_rooms"
    => \A i, j \in 1..Len(ret.rooms) :
          i < j =>
            /\ ret.rooms[j].hasUnreplied => ret.rooms[i].hasUnreplied
            /\ (ret.rooms[i].hasUnreplied = ret.rooms[j].hasUnreplied)
                 => ret.rooms[i].index >= ret.rooms[j].index

\* C5 witness: an older unreplied room is listed before a newer replied one.
C5_Witness ==
  /\ ret.op = "get_rooms"
  /\ Len(ret.rooms) = 2
  /\ ret.rooms[1].hasUnreplied
  /\ ~ret.rooms[2].hasUnreplied
  /\ ret.rooms[1].index < ret.rooms[2].index

ReceivedOf(store, room_id) ==
  {c \in store : InRoom(c, room_id) /\ c.sent_or_received = "Received"}

LatestOf(S) == {c \in S : \A d \in S : d.communication_date <= c.communication_date}

Answered(c) == c.status \in {<<"Replied">>, <<"Closed">>}

\* C6: a room's hasUnreplied is true exactly when the room has a Received
\* record and its Received record of the greatest date (one of them, when
\* several share that date) is neither Replied nor Closed.
C6_LatestReceivedDecides ==
  ret.op = "get_rooms"
    => \A k \in 1..Len(ret.rooms) :
          LET latest == LatestOf(ReceivedOf(comms, ret.rooms[k].roomId))
          IN IF latest = {}
             THEN ~ret.rooms[k].hasUnreplied
             ELSE \E c \in latest : ret.rooms[k].hasUnreplied = ~Answered(c)

\* C6 witness: a room whose latest Received record is answered and whose
\* older Received record is open is listed with hasUnreplied false.
C6_Witness ==
  /\ ret.op = "get_rooms"
  /\ \E k \in 1..Len(ret.rooms) :
       LET received == ReceivedOf(comms, ret.rooms[k].roomId)
       IN /\ ~ret.rooms[k].hasUnreplied
          /\ \A c \in LatestOf(received) : Answered(c)
          /\ \E c \in received : ~Answered(c)

RoomSummary(rooms) ==
  [k \in 1..Len(rooms) |-> <<rooms[k].roomId, rooms[k].unreadCount, rooms[k].hasUnreplied>>]

\* C7: two calls of get_rooms with no write in between return the same room
\* ids, unreadCount and hasUnreplied per room, total and order.
C7_SameAnswerTwice ==
  [][(ret.op = "get_rooms" /\ ret'.op = "get_rooms" /\ comms' = comms)
       => /\ RoomSummary(ret'.rooms) = RoomSummary(ret.rooms)
          /\ ret'.total = ret.total]_vars

\* The round trip of C8 on a medium and an identifier without ':'.
RoundTripHolds ==
  (ret.op = "parse_room_id" /\ ~HasColon(ret.medium) /\ ~HasColon(ret.identifier))
    => /\ ret.parsed.medium = ret.medium
       /\ ret.parsed.identifier = ret.identifier
       /\ ret.parsed.reference_doctype = None
       /\ ret.parsed.reference_name = None

ParsedAsGrouped ==
  ret.parsed.medium = ret.medium /\ ret.parsed.identifier = ret.identifier

\* C8 as stated: the round trip holds, and every roomId of get_rooms parses
\* back to the medium and the identifier the room was grouped under.
C8_EveryListedRoomParsesBack ==
  /\ RoundTripHolds
  /\ ret.op = "parse_listed" => ParsedAsGrouped

\* C8 amended: the round trip holds, and every roomId of get_rooms whose
\* room was grouped under an identifier without ':' parses back to that
\* medium and identifier.
C8_RoundTrip ==
  /\ RoundTripHolds
  /\ (ret.op = "parse_listed" /\ ~HasColon(ret.identifier)) => ParsedAsGrouped

\* C8 witness: a non-empty medium and identifier went through format and
\* parse.
C8_Witness ==
  /\ ret.op = "parse_room_id"
  /\ ret.medium # Empty
  /\ ret.identifier # Empty
  /\ ~HasColon(ret.medium)
  /\ ~HasColon(ret.identifier)
  /\ ret.parsed.identifier = ret.identifier

\* ---------------------------------------------------- claim on get_messages
Max0(x) == IF x > 0 THEN x ELSE 0

\* C9: page `page` of a thread of N messages holds the messages at the
\* oldest-first positions max(0, N - page*limit) up to but excluding
\* N - (page-1)*limit (none when that range is empty), and hasMore is true
\* exactly when max(0, N - page*limit) > 0.
C9_PageWindow ==
  (ret.op = "get_messages" /\ ret.page >= 1 /\ ret.limit >= 1)
    => LET thread == CHOOSE rows \in MessageRows(comms, ret.room_id) : TRUE
           N == Len(thread)
           lo == Max0(N - ret.page * ret.limit)
           hi == N - (ret.page - 1) * ret.limit
       IN /\ Len(ret.messages) = Max0(hi - lo)
          /\ \A j \in 1..Len(ret.messages) : ret.messages[j].id = thread[lo + j].name
          /\ ret.hasMore = (lo > 0)

\* ---------------------------------------------------- claims on the webhook
\* The request passes the webhook's checks: a POST, signed with the
\* configured auth token.
Validated(request, conf) ==
  /\ request.method = "POST"
  /\ Truthy(conf.twilio_auth_token)
  /\ request.signature = conf.twilio_auth_token

\* C11: the webhook creates a Communication only for a POST whose signature
\* validates against the configured auth token: any other request ends with
\* an error and leaves the store as it was; a valid request creates exactly
\* one Received record, medium SMS, status Open, phone_no the sender number,
\* and answers 204 without body.
C11_OnlyValidatedRequestsStored ==
  [][ret'.op = "sms" =>
       LET request == ret'.request
           received == {c \in comms' \ comms : c.sent_or_received = "Received"}
       IN IF Validated(request, settings)
          THEN /\ Cardinality(received) = 1
               /\ \A c \in received : /\ c.communication_medium = SMS
                                      /\ c.status = <<"Open">>
                                      /\ c.phone_no = request.From
               /\ ~ret'.raised
               /\ ret'.http_status_code = NoContent
               /\ ret'.message = None
          ELSE /\ comms' = comms
               /\ contacts' = contacts
               /\ ret'.raised
               /\ Truthy(ret'.error)]_vars

\* A valid request was answered with 204 and its record is stored.
C11_Witness ==
  /\ ret.op = "sms"
  /\ Validated(ret.request, settings)
  /\ ret.http_status_code = NoContent
  /\ \E c \in comms : c.sent_or_received = "Received" /\ c.phone_no = ret.request.From

\* The confirmation records for a number.
Confirmations(store, number) ==
  {c \in store : /\ c.sent_or_received = "Sent"
                 /\ c.communication_medium = SMS
                 /\ c.content = StopConfirmation
                 /\ c.phone_no = number}

\* C12: when a validated inbound SMS has a content that, trimmed and
\* case-folded, equals "stop", every contact with the sender's number is
\* flagged unsubscribed afterwards, exactly one Sent SMS record with the
\* confirmation text is created for the number, and no contact that was
\* flagged before (by an earlier STOP) loses its flag.
C12_StopUnsubscribes ==
  [][(ret'.op = "sms" /\ ~ret'.raised /\ IsStop(ret'.request.Body)) =>
       /\ \A d \in PhoneHolders(contacts', ret'.request.From) : d.unsubscribed
       /\ Cardinality(Confirmations(comms' \ comms, ret'.request.From)) = 1
       /\ \A d \in contacts : d.unsubscribed =>
            \E e \in contacts' : e.name = d.name /\ e.unsubscribed]_vars

\* STOP has arrived twice from a number that two contacts share: both are
\* flagged and each STOP was confirmed once.
C12_Witness ==
  /\ ret.op = "sms"
  /\ ~ret.raised
  /\ IsStop(ret.request.Body)
  /\ Cardinality(PhoneHolders(contacts, ret.request.From)) = 2
  /\ \A d \in PhoneHolders(contacts, ret.request.From) : d.unsubscribed
  /\ Cardinality(Confirmations(comms, ret.request.From)) = 2

\* --------------------------------------------- claim on group text messages
\* C13: a scheduled Group Text Message is sent to its recipients at most
\* once, however often the sending is invoked: once its status has left
\* Scheduled there is no second send.
C13_ScheduledSentAtMostOnce ==
  \A text \in texts : text.schedule => Len(text.comments) <= 1

\* ------------------------------------------- claim on grouping and unread
\* The part of s before its first comma.
BeforeComma(s) ==
  IF \E i \in 1..Len(s) : s[i] = Comma
  THEN SubSeq(s, 1, (CHOOSE i \in 1..Len(s) :
                       s[i] = Comma /\ \A j \in 1..(i - 1) : s[j] # Comma) - 1)
  ELSE s

\* The room key of a record: medium, ':', and the phone number for SMS and
\* Phone, else the sender of a received record or the first recipient,
\* trimmed, of a sent one.
RoomKey(c) ==
  c.communication_medium \o <<Colon>> \o
    (IF c.communication_medium \in {SMS, Phone} THEN c.phone_no
     ELSE IF c.sent_or_received = "Received" THEN c.sender
     ELSE Strip(BeforeComma(c.recipients)))

\* C14: get_rooms without search and medium filter puts every record of type
\* Communication into exactly one room, the room with its room key, and
\* every room's unreadCount is the number of its records that are Received
\* and not seen (sent records are not counted).
C14_OneRoomAndUnreadCount ==
  ret.op = "get_rooms" =>
    /\ \A c \in {d \in comms : IsCommunication(d)} :
         Cardinality({k \in 1..Len(ret.rooms) : ret.rooms[k].roomId = RoomKey(c)}) = 1
    /\ \A k \in 1..Len(ret.rooms) :
         /\ \E c \in comms : IsCommunication(c) /\ RoomKey(c) = ret.rooms[k].roomId
         /\ ret.rooms[k].unreadCount =
              Cardinality({c \in comms : /\ IsCommunication(c)
                                         /\ RoomKey(c) = ret.rooms[k].roomId
                                         /\ c.sent_or_received = "Received"
                                         /\ ~c.seen})

\* A listed email room holds an unseen received record and an unseen sent
\* record whose first recipient, trimmed, is the sender of the former.
C14_Witness ==
  /\ ret.op = "get_rooms"
  /\ \E k \in 1..Len(ret.rooms) :
       /\ ret.rooms[k].unreadCount = 1
       /\ \E c, d \in comms :
            /\ RoomKey(c) = ret.rooms[k].roomId
            /\ RoomKey(d) = ret.rooms[k].roomId
            /\ c.sent_or_received = "Received" /\ ~c.seen
            /\ d.sent_or_received = "Sent" /\ ~d.seen
            /\ d.recipients # c.sender

\* ------------------------------------------------- claims on deduplication
\* The contact the last operation worked on, before and after.
ContactOf(contact_docs, name) == CHOOSE d \in contact_docs : d.name = name

\* A string without upper-case letter and without blank at either end.
LowerCased(s) == \A i \in 1..Len(s) : s[i] \notin {"A", "B", "O", "P", "S", "T"}

Trimmed(s) == s = <<>> \/ (s[1] # " " /\ s[Len(s)] # " ")

\* The address as it is compared: trimmed, without regard to case.
Folded(s) == Lower(Strip(s))

\* The positions of the first occurrences in a sequence of keys.
FirstOccurrences(keys) ==
  {i \in 1..Len(keys) : \A j \in 1..(i - 1) : keys[j] # keys[i]}

\* The rows are in the order of their idx.
InOrder(rows) == \A i, j \in 1..Len(rows) : i < j => rows[i].idx < rows[j].idx

\* C15: after deduplicate_emails every remaining address is lower-cased and
\* trimmed, no two remaining rows hold the same address, the remaining rows
\* are exactly the first occurrences of the distinct addresses (compared
\* without regard to case, after trimming), in their former order; a second
\* run changes nothing.
C15_EmailsDeduplicated ==
  [][ret'.op = "deduplicate_emails" =>
       LET before == ContactOf(contacts, ret'.contact).email_ids
           after == ContactOf(contacts', ret'.contact).email_ids
           keys == [i \in 1..Len(before) |-> Folded(before[i].email_id)]
       IN /\ \A i \in 1..Len(after) :
               LowerCased(after[i].email_id) /\ Trimmed(after[i].email_id)
          /\ \A i, j \in 1..Len(after) : i # j => after[i].email_id # after[j].email_id
          /\ {after[i].idx : i \in 1..Len(after)}
               = {before[i].idx : i \in FirstOccurrences(keys)}
          /\ \A i \in 1..Len(after) :
               \E j \in 1..Len(before) :
                  before[j].idx = after[i].idx /\ after[i].email_id = keys[j]
          /\ InOrder(after)
          /\ deduplicate_emails(after) = after]_vars

\* The rows held A, " a", b and a fourth address; a and b are left.
C15_Witness ==
  /\ ret.op = "deduplicate_emails"
  /\ LET after == ContactOf(contacts, ret.contact).email_ids
     IN /\ Len(after) = 2
        /\ after[1] = [idx |-> 1, email_id |-> <<"a">>]
        /\ after[2].idx = 3
        /\ after[2].email_id = <<"b">>

\* The number a phone string denotes under the country code, None when it
\* denotes none: the string is E.164 already or can be converted.
Denotes(phone, country_code) ==
  IF is_valid_e164_number(phone) THEN phone ELSE convert_to_e164(phone, country_code)

Convertible(phone, country_code) == Denotes(phone, country_code) # None

\* C16 as stated: after deduplicate_phone_numbers(country_code) no two
\* remaining rows hold the same phone value, every row whose number is
\* convertible holds it in E.164 form, and of several rows that denote the
\* same number only the first is kept.
C16_NoTwoRowsSamePhone ==
  [][ret'.op = "deduplicate_phone_numbers" =>
       LET country_code == ret'.medium[1]
           before == ContactOf(contacts, ret'.contact).phone_nos
           after == ContactOf(contacts', ret'.contact).phone_nos
           keys == [i \in 1..Len(before) |-> Denotes(before[i].phone, country_code)]
       IN /\ \A i, j \in 1..Len(after) : i # j => after[i].phone # after[j].phone
          /\ \A i \in 1..Len(after) :
               Convertible(after[i].phone, country_code) =>
                 is_valid_e164_number(after[i].phone)
          /\ \A i \in 1..Len(before) :
               (keys[i] # None /\ i \notin FirstOccurrences(keys)) =>
                 \A k \in 1..Len(after) : after[k].idx # before[i].idx]_vars

\* C16, amended: after deduplicate_phone_numbers(country_code) no two
\* remaining rows whose number is convertible hold the same phone value,
\* every such row holds its number in E.164 form, of several rows that
\* denote the same number exactly the first is kept, and every row whose
\* number is not convertible is kept as it was, in the former order.
C16_ConvertibleDeduplicated ==
  [][ret'.op = "deduplicate_phone_numbers" =>
       LET country_code == ret'.medium[1]
           before == ContactOf(contacts, ret'.contact).phone_nos
           after == ContactOf(contacts', ret'.contact).phone_nos
           keys == [i \in 1..Len(before) |-> Denotes(before[i].phone, country_code)]
       IN /\ \A i, j \in 1..Len(after) :
               (i # j /\ Convertible(after[i].phone, country_code)
                      /\ Convertible(after[j].phone, country_code))
                 => after[i].phone # after[j].phone
          /\ \A i \in 1..Len(after) :
               Convertible(after[i].phone, country_code) =>
                 is_valid_e164_number(after[i].phone)
          /\ {after[k].idx : k \in 1..Len(after)}
               = {before[i].idx : i \in {j \in 1..Len(before) :
                                          keys[j] = None \/ j \in FirstOccurrences(keys)}}
          /\ \A k \in 1..Len(after) :
               \E i \in 1..Len(before) :
                  /\ before[i].idx = after[k].idx
                  /\ after[k].phone = IF keys[i] = None THEN before[i].phone ELSE keys[i]
          /\ InOrder(after)]_vars

\* The rows held number 1 twice and then a string that is no number: the
\* first row holds +1, the second is gone, the third is kept as it was.
C16_Witness ==
  /\ ret.op = "deduplicate_phone_numbers"
  /\ ret.medium = <<"US">>
  /\ LET after == ContactOf(contacts, ret.contact).phone_nos
     IN /\ Len(after) = 2
        /\ after[1].idx = 1 /\ after[1].phone = <<"+", "1">>
        /\ after[2].idx = 3 /\ after[2].phone = <<"x">>

\* ------------------------------------------------ claims on group members
IsMember(member_rows, group, contact_name) ==
  GroupMemberRows(member_rows, group, contact_name) # {}

\* What one operation does to the membership of the contacts in the groups
\* of Watched: add_to_group makes the contact a member of the group,
\* remove_from_group ends its membership, the deletion of a contact ends
\* its membership in every group, and no other membership changes; no
\* group holds two rows for one contact.
MembershipFollowsLastOperation(Watched) ==
  /\ ret'.op = "add_to_group" =>
       IsMember(members', ret'.group, ret'.contact)
  /\ ret'.op = "remove_from_group" =>
       ~IsMember(members', ret'.group, ret'.contact)
  /\ ret'.op = "delete_contact" =>
       \A g \in GroupNames : ~IsMember(members', g, ret'.contact)
  /\ ret'.op \in {"add_to_group", "remove_from_group", "delete_contact"} =>
       /\ \A g \in Watched, d \in contacts :
            (d.name # ret'.contact \/ (ret'.op # "delete_contact" /\ g # ret'.group)) =>
              (IsMember(members', g, d.name) <=> IsMember(members, g, d.name))
       /\ \A g \in GroupNames, d \in contacts :
            Cardinality(GroupMemberRows(members', g, d.name)) <= 1

\* C17 as stated: after any sequence of add_to_group, remove_from_group and
\* contact deletions a contact is a member of a group exactly when it is
\* not deleted and its last operation on that group was add_to_group (each
\* operation sets the membership it names and leaves every other one as it
\* was, starting without members); no group holds two rows for one contact;
\* a deleted contact is in no group.
C17_MemberIffLastOperationAdd ==
  [][MembershipFollowsLastOperation(GroupNames)]_vars

\* C17, amended: the same for every group other than the all-contacts group
\* of Messaging Settings; in the all-contacts group add_to_group,
\* remove_from_group and deletion have the same immediate effect, but a
\* contact also becomes a member of it when it is added to another group.
C17_ExceptAllContactsGroup ==
  [][MembershipFollowsLastOperation(GroupNames \ {settings.all_contacts_group})]_vars

\* A contact has just been added to a group that is not the all-contacts
\* group and is linked to both groups, after another contact was deleted.
C17_Witness ==
  /\ ret.op = "add_to_group"
  /\ Cardinality(contacts) < MaxContacts
  /\ \E row \in members :
       /\ row.parent = ret.group
       /\ row.contact = ret.contact
       /\ row.parent # settings.all_contacts_group
       /\ \E d \in contacts : d.name = row.contact /\ Cardinality(d.links) = 2

\* ------------------------------------------------------ claim on delete_room
\* The records delete_room selects for a well-formed room id: type
\* Communication, the room's medium, and the phone number (SMS, Phone) or
\* the sender or recipients (other media) of the room.
SelectedForRoom(store, room_id) ==
  LET room_parts == parse_room_id(room_id)
  IN {c \in store :
        /\ IsCommunication(c)
        /\ c.communication_medium = room_parts.medium
        /\ IF room_parts.medium \in {SMS, Phone}
           THEN c.phone_no = room_parts.identifier
           ELSE c.sender = room_parts.identifier
                  \/ Like(c.recipients, room_parts.identifier)}

\* C18: delete_room (on a well-formed room id) deletes every record it
\* selects for the room except those whose deletion fails, and nothing else;
\* count is the number of records deleted; success holds exactly when no
\* deletion failed; and after success get_messages for the room id returns
\* no messages and total 0.
C18_DeleteRoomDeletesAllItCan ==
  [][(ret'.op = "delete_room" /\ ~MalformedRoomId(ret'.room_id)) =>
       LET selected == SelectedForRoom(comms, ret'.room_id)
           failed == {c \in selected : c.name \in ret'.faults}
       IN /\ comms' = comms \ (selected \ failed)
          /\ ret'.count = Cardinality(selected \ failed)
          /\ ret'.success <=> failed = {}
          /\ ret'.success =>
               \A rows \in MessageRows(comms', ret'.room_id) :
                  LET r == get_messages(comms', rows, ret'.room_id, 1, 0)
                  IN r.messages = <<>> /\ r.total = 0]_vars

\* One record of a room of two could not be deleted: the other one is gone,
\* count is 1 and success is false.
C18_Witness ==
  /\ ret.op = "delete_room"
  /\ ~ret.success
  /\ ret.count = 1
  /\ Cardinality(ret.faults) = 1
  /\ Cardinality(SelectedForRoom(comms, ret.room_id)) = 1

\* ---------------------------------------------------- claims on send_message
\* C19: send_message returns success=false only when the outbound record was
\* not persisted: a call that answers success=false has added no record to
\* the store.
C19_FailureOnlyWithoutRecord ==
  [][(ret'.op = "send_message" /\ ~ret'.success) => Names(comms') \subseteq Names(comms)]_vars

\* The call whose only failure was to mark the answered message Replied
\* answered success=false, and its record is stored.
C19_FailureAfterInsert ==
  /\ ret.op = "send_message"
  /\ ~ret.success
  /\ ret.faults = {"status"}
  /\ \E c \in comms : c.sent_or_received = "Sent"

\* The message of a page that shows the record with the name.
MessagesOf(messages, name) == {k \in 1..Len(messages) : messages[k].id = name}

\* C20: after send_message(room_id, reply_message_id = X) has answered
\* success=true, X being a record of that room, get_messages(room_id) holds
\* the new message with a replyMessage that is X; and every message
\* get_messages returns has a replyMessage exactly when its in_reply_to is
\* the message_id of a stored Communication, which the preview then names.
C20_ReplyPreviewAfterSend ==
  [][/\ (/\ ret'.op = "send_message"
         /\ ret'.success
         /\ \E x \in comms : x.name = ret'.reply_message_id /\ InRoom(x, ret'.room_id))
       => \A rows \in MessageRows(comms', ret'.room_id) :
             LET r == get_messages(comms', rows, ret'.room_id, 1, 0)
             IN /\ MessagesOf(r.messages, ret'.message) # {}
                /\ \A k \in MessagesOf(r.messages, ret'.message) :
                     r.messages[k].replyMessage = ret'.reply_message_id
     /\ ret'.op = "get_messages"
       => \A k \in 1..Len(ret'.messages) :
             LET comm == Record(comms', ret'.messages[k].id)
                 answered == {x \in comms' : Truthy(comm.in_reply_to)
                                             /\ x.message_id = comm.in_reply_to}
             IN IF answered = {}
                THEN ret'.messages[k].replyMessage = None
                ELSE \E x \in answered : ret'.messages[k].replyMessage = x.name]_vars

\* The records a send wrote and the records whose status it changed.
NewRecords(store, store2) == {c \in store2 : c.name \notin Names(store)}

StatusChanged(store, store2) ==
  {c \in store : \E d \in store2 : d.name = c.name /\ d.status # c.status}

\* t is a record of the room with the greatest communication_date.
LatestInRoom(store, room_id, t) ==
  /\ t \in store
  /\ InRoom(t, room_id)
  /\ \A c \in store : InRoom(c, room_id) => c.communication_date <= t.communication_date

\* C21: a send_message without reply_message_id threads against a record of
\* the room with the greatest communication_date (the new record's
\* in_reply_to names it; nothing is named when the room has no record); a
\* successful send leaves that record Replied when it is Received and
\* changes no status when it is Sent; no send changes the status of any
\* other record.
C21_ThreadsAgainstLatest ==
  [][(ret'.op = "send_message" /\ ret'.reply_message_id = Empty)
       => LET room_id == ret'.room_id
              thread == {c \in comms : InRoom(c, room_id)}
          IN /\ \A n \in NewRecords(comms, comms') :
                  IF thread = {} THEN ~Truthy(n.in_reply_to)
                  ELSE \E t \in thread : /\ t.name = n.in_reply_to
                                         /\ LatestInRoom(comms, room_id, t)
                                         /\ (ret'.success /\ t.sent_or_received = "Received")
                                              => Record(comms', t.name).status = <<"Replied">>
                                         /\ t.sent_or_received = "Sent"
                                              => StatusChanged(comms, comms') = {}
                                         /\ StatusChanged(comms, comms') \subseteq {t}
             /\ NewRecords(comms, comms') = {} => StatusChanged(comms, comms') = {}]_vars

\* A send without reply_message_id into a room with an older open received
\* record and a newer received record: the newer one is answered and
\* Replied, the older one still Open.
C21_Witness ==
  /\ ret.op = "send_message"
  /\ ret.success
  /\ ret.reply_message_id = Empty
  /\ \E t \in comms, o \in comms, n \in comms :
       /\ InRoom(t, ret.room_id)
       /\ InRoom(o, ret.room_id)
       /\ o.communication_date < t.communication_date
       /\ o.sent_or_received = "Received"
       /\ o.status = <<"Open">>
       /\ t.sent_or_received = "Received"
       /\ t.status = <<"Replied">>
       /\ n.name = ret.message
       /\ n.in_reply_to = t.name

\* ------------------------------------------------ claim on the scheduler job
\* A Group Text Message the job has to dispatch: Scheduled and due.
Due(text, today) == text.status = "Scheduled" /\ text.delivery_datetime <= today

\* C22: one run of send_scheduled_messages leaves every Group Text Message
\* that was Scheduled and due with status Sent, leaves every other message
\* as it was, and completes without error when no message is due.
C22_JobDispatchesEveryDueMessage ==
  [][ret'.op = "send_scheduled_messages"
       => /\ \A text \in texts :
               IF Due(text, now)
               THEN \E sent \in texts' : sent.name = text.name /\ sent.status = "Sent"
               ELSE text \in texts'
          /\ (\A text \in texts : ~Due(text, now)) => ~ret'.raised]_vars

\* --------------------------------------- claim on the selection for a room
\* C23: called with the roomId of a room get_rooms returned, get_messages
\* returns exactly the communications get_rooms grouped into that room,
\* archive_room sets exactly those to Closed and delete_room deletes exactly
\* those.
C23_SelectsExactlyTheRoom ==
  [][(ret.op = "get_rooms" /\ ret'.op \in {"get_messages", "archive_room", "delete_room"})
       => LET grouped == {c \in comms : InRoom(c, ret'.room_id)}
          IN /\ ret'.op = "get_messages"
                  => {ret'.messages[k].id : k \in 1..Len(ret'.messages)} = Names(grouped)
             /\ ret'.op = "archive_room"
                  => /\ ret'.count = Cardinality(grouped)
                     /\ \A c \in comms :
                          IF c \in grouped
                          THEN Record(comms', c.name).status = <<"Closed">>
                          ELSE c \in comms'
             /\ ret'.op = "delete_room" => comms \ comms' = grouped]_vars

\* ------------------------------------------- claim on the medium of a send
\* The record n is of the room's medium, grouped by get_rooms into the room
\* and the last message of page 1 of get_messages(room_id) on the store.
SentIntoRoom(store, n, room_id) ==
  /\ n.communication_medium = parse_room_id(room_id).medium
  /\ InRoom(n, room_id)
  /\ \A rows \in MessageRows(store, room_id) :
       LET messages == get_messages(store, rows, room_id, 1, 0).messages
       IN messages # <<>> /\ messages[Len(messages)].id = n.name

\* C24: after a successful send_message(room_id) for a room id of any
\* medium, the new Communication has the room's medium, is grouped by
\* get_rooms into the room room_id and is the last message of page 1 of
\* get_messages(room_id).
C24_SentIntoItsRoom ==
  [][(ret'.op = "send_message" /\ ret'.success)
       => /\ NewRecords(comms, comms') # {}
          /\ \A n \in NewRecords(comms, comms') : SentIntoRoom(comms', n, ret'.room_id)]_vars

\* ------------------------------------------------- claim on the subject
\* S starts with "re:" in any letter case.
StartsWithRe(S) ==
  Len(S) >= 3 /\ S[1] \in {"r", "R"} /\ S[2] \in {"e", "E"} /\ S[3] = Colon

\* The subject C25 expects for a response's inputs.
ExpectedSubject(r) ==
  IF r.subject # Empty THEN r.subject
  ELSE IF r.medium = Email /\ r.original_subject \notin {None, Empty}
       THEN IF StartsWithRe(r.original_subject) THEN r.original_subject
            ELSE <<"R", "e", Colon, " ">> \o r.original_subject
       ELSE <<"Message to ">> \o r.identifier

\* C25: without a supplied subject send_message stores, for Email with a
\* known original subject S, S if S starts with "re:" in any letter case and
\* "Re: " + S otherwise, and "Message to " + identifier for Email without
\* original subject and for every other medium; a supplied subject is stored
\* unchanged; a subject derived from an original subject is derived again
\* to itself.
C25_SubjectDerivation ==
  [][ret'.op \in {"derive_subject", "derive_again"}
       => /\ ret'.message = ExpectedSubject(ret')
          /\ (/\ ret'.op = "derive_again"
              /\ ret.medium = Email
              /\ ret.subject = Empty
              /\ ret.original_subject \notin {None, Empty})
               => ret'.message = ret.message]_vars

\* The subject "x" was answered with "Re: x" and that again with "Re: x".
C25_Witness ==
  /\ ret.op = "derive_again"
  /\ ret.medium = Email
  /\ ret.original_subject = <<"R", "e", Colon, " ", "x">>
  /\ ret.message = <<"R", "e", Colon, " ", "x">>

\* ------------------------------------------ claim on the representative
\* C26: the representative record of every room get_rooms returns (the
\* record named as lastMessage, whose communication_date is the room's index
\* and sort date) is a communication grouped into the room and none of the
\* room's communications, Sent or Received, has a greater
\* communication_date.
C26_RepresentativeIsLatest ==
  ret.op = "get_rooms"
    => \A k \in 1..Len(ret.rooms) :
          \E rep \in comms :
             /\ rep.name = ret.rooms[k].lastMessage
             /\ ret.rooms[k].index = rep.communication_date
             /\ LatestInRoom(comms, ret.rooms[k].roomId, rep)

\* get_rooms returned a room of a received record and a later sent record,
\* represented by the sent one.
C26_Witness ==
  /\ ret.op = "get_rooms"
  /\ \E k \in 1..Len(ret.rooms) :
       \E rep \in comms, c \in comms :
          /\ rep.name = ret.rooms[k].lastMessage
          /\ rep.sent_or_received = "Sent"
          /\ InRoom(c, ret.rooms[k].roomId)
          /\ c.sent_or_received = "Received"
          /\ c.communication_date < rep.communication_date

\* -------------------------------------- claim on the recipients of a text
\* The contacts whose numbers a message may be sent to: with SMS consent,
\* in a target group and in no excluded group.
Eligible(text) ==
  {d \in contacts :
     /\ d.consent_sms
     /\ \E row \in members : row.contact = d.name /\ row.parent \in text.messaging_group
     /\ \A row \in members : row.contact = d.name => row.parent \notin text.exclude_groups}

\* The valid primary mobile numbers of a contact.
PrimaryMobiles(d) ==
  {d.phone_nos[i].phone : i \in {j \in DOMAIN d.phone_nos :
                                   d.phone_nos[j].is_primary_mobile_no /\ d.phone_nos[j].is_valid}}

\* C28: every phone number a Group Text Message is sent to is the valid
\* primary mobile number of a contact with SMS consent who is a member of
\* at least one target group and of no excluded group.
C28_RecipientsAreEligible ==
  \A text \in texts : \A k \in DOMAIN text.comments : \A number \in text.comments[k] :
    \E d \in Eligible(text) : number \in PrimaryMobiles(d)

\* A message was sent to one contact while the other, a consenting member of
\* a target group with a valid primary mobile number, is in an excluded
\* group and is left out.
C28_Witness ==
  \E text \in texts : \E d \in contacts :
    /\ Len(text.comments) > 0
    /\ text.comments[1] # {}
    /\ d.consent_sms
    /\ PrimaryMobiles(d) # {}
    /\ \E row \in members : row.contact = d.name /\ row.parent \in text.messaging_group
    /\ \E row \in members : row.contact = d.name /\ row.parent \in text.exclude_groups
    /\ PrimaryMobiles(d) \cap text.comments[1] = {}

\* --------------------------------------------- claim on the primary numbers
\* The phone rows of a contact with the flag.
Flagged(doc, flag) == {i \in DOMAIN doc.phone_nos : doc.phone_nos[i][flag]}

\* C29: after validate_phone_numbers and set_primary_numbers on a contact
\* with at least one valid number, every entry flagged is_primary_phone is
\* valid, every entry flagged is_primary_mobile_no is valid with carrier type
\* mobile, and at most one entry carries each flag.
C29_PrimaryFlagsOnValidNumbers ==
  ret.op = "validate" =>
    \A doc \in contacts :
      (\E i \in DOMAIN doc.phone_nos : doc.phone_nos[i].is_valid) =>
        /\ \A i \in Flagged(doc, "is_primary_phone") : doc.phone_nos[i].is_valid
        /\ \A i \in Flagged(doc, "is_primary_mobile_no") :
             doc.phone_nos[i].is_valid /\ doc.phone_nos[i].carrier_type = "mobile"
        /\ Cardinality(Flagged(doc, "is_primary_phone")) <= 1
        /\ Cardinality(Flagged(doc, "is_primary_mobile_no")) <= 1

\* -------------------------------------------------- claims on web push
\* The provider reported the subscription as gone.
Gone(outcome) == outcome.status \in {"404", "410"}

Delivered(outcome) == outcome.kind = "response" /\ outcome.status \in {"200", "201"}

\* C27: send_push_to_user raises nothing; without a VAPID public or private
\* key it attempts nothing, deletes nothing and returns 0; else it attempts
\* every subscription of the user whatever the other attempts yield,
\* deletes exactly the user's subscriptions the provider reported as gone
\* (404/410) and returns the number of subscriptions delivered with status
\* 200 or 201.
C27_PushToEverySubscription ==
  [][ret'.op = "send_push_to_user"
       => LET mine == {s \in subscriptions : s.user = ret'.user}
          IN /\ ~ret'.raised
             /\ IF settings.vapid_public_key = None \/ settings.vapid_private_key_secret = None
                THEN /\ ret'.attempted = {}
                     /\ ret'.count = 0
                     /\ subscriptions' = subscriptions
                ELSE /\ ret'.attempted = {s.name : s \in mine}
                     /\ subscriptions \ subscriptions'
                          = {s \in mine : Gone(ret'.outcomes[s.name])}
                     /\ subscriptions' \subseteq subscriptions
                     /\ ret'.count
                          = Cardinality({s \in mine : Delivered(ret'.outcomes[s.name])})]_vars

\* No two Push Subscriptions of one user and endpoint.
OnePerUserAndEndpoint(store) ==
  \A s \in store, o \in store : (s.user = o.user /\ s.endpoint = o.endpoint) => s = o

Registered(store, user, endpoint) == {s \in store : s.user = user /\ s.endpoint = endpoint}

\* C30: whatever save_push_subscription and remove_push_subscription calls
\* were made, there is at most one Push Subscription per user and endpoint;
\* saving a registered endpoint keeps the user's one document and gives it
\* the new keys, saving a new one adds one document and changes no other;
\* remove_push_subscription(endpoint) leaves the session user without a
\* subscription for the endpoint and every other subscription as it was; a
\* save by Guest or without endpoint raises and stores nothing.
C30_OneSubscriptionPerEndpoint ==
  [][/\ OnePerUserAndEndpoint(subscriptions')
     /\ ret'.op = "save_push_subscription"
          => IF ret'.user = Guest \/ ret'.endpoint = Empty
             THEN ret'.raised /\ subscriptions' = subscriptions
             ELSE /\ ~ret'.raised
                  /\ Cardinality(Registered(subscriptions', ret'.user, ret'.endpoint)) = 1
                  /\ \A s \in Registered(subscriptions', ret'.user, ret'.endpoint) :
                       s.p256dh_key = ret'.keys /\ s.auth_key = ret'.keys
                  /\ {s.name : s \in Registered(subscriptions, ret'.user, ret'.endpoint)}
                       \subseteq {s.name : s \in Registered(subscriptions', ret'.user, ret'.endpoint)}
                  /\ \A s \in subscriptions :
                       s \notin Registered(subscriptions, ret'.user, ret'.endpoint)
                         => s \in subscriptions'
                  /\ Cardinality(subscriptions')
                       = Cardinality(subscriptions)
                           + (IF Registered(subscriptions, ret'.user, ret'.endpoint) = {}
                              THEN 1 ELSE 0)
     /\ ret'.op = "remove_push_subscription"
          => /\ Registered(subscriptions', ret'.user, ret'.endpoint) = {}
             /\ subscriptions'
                  = subscriptions \ Registered(subscriptions, ret'.user, ret'.endpoint)]_vars

\* The endpoint e1 of user u1 was saved with key k1 and again with key k2,
\* beside a subscription of user u2 for e1: u1 has one document, the first,
\* with key k2.
C30_Witness ==
  /\ ret.op = "save_push_subscription"
  /\ ret.user = <<"u1">>
  /\ ret.message = <<"PUSH", 1>>
  /\ \E s \in subscriptions :
       /\ s.name = <<"PUSH", 1>>
       /\ s.user = <<"u1">>
       /\ s.p256dh_key = <<"k2">>
  /\ \E o \in subscriptions : o.user = <<"u2">> /\ o.endpoint = <<"e1">>
  /\ Cardinality(subscriptions) = 2

====
